---- MODULE Spec2Model ----
(***************************************************************************)
(* Model of the bible-study-companion client: the profile codec            *)
(* (fromSupabase / toSupabase / updateUserData), the local-storage guard   *)
(* (robustSafeParse), the cache key (getCacheKey), the resilient profile   *)
(* fetch (getUserData) and the chapter fetch pipeline of StudyApp          *)
(* (fetchAllChapterData with App.handleUpdateUserData).                    *)
(*                                                                         *)
(* JavaScript values are tagged records: [t |-> type tag, v |-> payload].  *)
(* Strings that the code only compares are TLA+ strings; strings that the  *)
(* code edits character by character are sequences of one-character        *)
(* strings.                                                                *)
(***************************************************************************)
EXTENDS Integers, Sequences, FiniteSets, TLC

VARIABLES
    \* ---- profile codec (authService.ts) ----
    row,          \* the backend "profiles" row of the signed-in user (wire format)
    decoded,      \* result of the last fromSupabase(row), or NoValue
    lastData,     \* argument of the last updateUserData call, or NoValue
    lastPatch,    \* toSupabase(lastData), or NoValue
    rowBefore,    \* the row as it was before the last updateUserData call
    \* ---- local storage guard (utils/cache.ts) ----
    localStorage, \* key -> raw string (sequence of characters) or Absent
    parseLog,     \* history of robustSafeParse calls
    corruptCalls, \* how many times an onCorrupt callback has been invoked
    \* ---- cache key (StudyApp.tsx) ----
    keyIn,        \* two (book, chapter, translation) triples
    keyOut,       \* their cache keys, or NoValue before they are computed
    \* ---- App.tsx / StudyApp.tsx ----
    currentUser,      \* App state: the UserData snapshot (wrapped in Obj)
    view,             \* StudyApp state: isChapterLoading, verses, deepDiveData, allEnrichmentData
    cacheResetBanner, \* StudyApp state
    tasks,            \* the runs of fetchAllChapterData, by slot
    userOp,           \* the profile update a sidebar handler has in flight
    \* ---- getUserData called on its own (authService.ts) ----
    profileCall,      \* the call, the answers it got and the value it returned
    \* ---- App.tsx: sign-in (handleAuthUser) ----
    auth,             \* the run of handleAuthUser and the App state it sets
    \* ---- the chapter cache read and written on its own (StudyApp.tsx) ----
    cacheOp,          \* the key looked up, what the lookup gave, what a write sent
    \* ---- ChatPanel.tsx ----
    chat              \* messages, isLoading and the reply being streamed

codecVars == <<row, decoded, lastData, lastPatch, rowBefore>>
parseVars == <<localStorage, parseLog, corruptCalls>>
keyVars   == <<keyIn, keyOut>>
appVars   == <<currentUser, view, cacheResetBanner, tasks, userOp, profileCall, auth, cacheOp, chat>>
vars      == <<codecVars, parseVars, keyVars, appVars>>

\* The bookkeeping of the codec specification
passiveVars == <<decoded, lastData, lastPatch, rowBefore>>

NoValue == [t |-> "none"]

----------------------------------------------------------------------------
(* JavaScript values *)

Undefined == [t |-> "undefined"]
Null      == [t |-> "null"]
Bool(b)   == [t |-> "boolean", v |-> b]
Num(n)    == [t |-> "number", v |-> n]
Str(s)    == [t |-> "string", v |-> s]
Arr(a)    == [t |-> "array", v |-> a]
Obj(m)    == [t |-> "object", v |-> m]

EmptyObj == Obj(<<>>)
EmptyArr == Arr(<<>>)

\* ToBoolean: undefined, null, false, 0 and "" are falsy, everything else truthy
Truthy(x) ==
    CASE x.t = "undefined" -> FALSE
      [] x.t = "null"      -> FALSE
      [] x.t = "boolean"   -> x.v
      [] x.t = "number"    -> x.v # 0
      [] x.t = "string"    -> x.v # ""
      [] OTHER             -> TRUE

\* a || b
OrElse(a, b) == IF Truthy(a) THEN a ELSE b

\* a ?? b
Coalesce(a, b) == IF a.t \in {"undefined", "null"} THEN b ELSE a

IsArray(x) == x.t = "array"

\* typeof x
TypeOf(x) ==
    CASE x.t = "array" -> "object"
      [] x.t = "null"  -> "object"
      [] OTHER         -> x.t

\* obj.name for a value that is not null or undefined
Prop(x, name) ==
    IF x.t = "object" /\ name \in DOMAIN x.v THEN x.v[name] ELSE Undefined

----------------------------------------------------------------------------
(* types.ts *)

\* enum StudyMode
StudyMode == {"Random Chapter", "Book Study", "Read Through", "Bookmarks",
              "Scripture Reader"}
READ_THROUGH == "Read Through"
SCRIPTURE_READER == "Scripture Reader"

\* keyof typeof AVAILABLE_TRANSLATIONS
TranslationKeys == {"web", "kjv"}

\* interface UserData
UserDataFields == {"id", "username", "studyMode", "readThroughIndex",
                   "userSelectedChapter", "completedChapters", "bookmarks",
                   "notes", "cachedContent", "translation", "updated_at"}

----------------------------------------------------------------------------
(* supabaseClient.ts / authService.ts: the profile codec *)

\* Database['public']['Tables']['profiles']['Row']
WireFields == {"id", "updated_at", "username", "study_mode", "read_through_index",
               "user_selected_chapter", "completed_chapters", "bookmarks",
               "notes", "cached_content", "translation"}

\* Reading obj.book raises a TypeError for null and undefined; the guard reads
\* it only after `obj &&` has found obj truthy
isChapterIdentifierRaises(obj) == Truthy(obj) /\ obj.t \in {"undefined", "null"}

\* A mutated guard that does not look at the chapter.
isChapterIdentifierBookOnly(obj) ==
    /\ Truthy(obj)
    /\ TypeOf(Prop(obj, "book")) = "string"

\* const isChapterIdentifier = (obj) =>
\*   obj && typeof obj.book === 'string' && typeof obj.chapter === 'number'
isChapterIdentifier(obj) ==
    /\ Truthy(obj)
    /\ TypeOf(Prop(obj, "book")) = "string"
    /\ TypeOf(Prop(obj, "chapter")) = "number"

fromSupabase(profile) ==
    LET rawChapter == profile["user_selected_chapter"]
        validatedChapter == IF isChapterIdentifier(rawChapter) THEN rawChapter ELSE Null
    IN  [ id                  |-> profile["id"],
          username            |-> OrElse(profile["username"], Str("User")),
          studyMode           |-> OrElse(profile["study_mode"], Str(READ_THROUGH)),
          readThroughIndex    |-> Coalesce(profile["read_through_index"], Num(0)),
          userSelectedChapter |-> validatedChapter,
          completedChapters   |-> IF IsArray(profile["completed_chapters"])
                                  THEN profile["completed_chapters"] ELSE EmptyArr,
          bookmarks           |-> IF IsArray(profile["bookmarks"])
                                  THEN profile["bookmarks"] ELSE EmptyArr,
          notes               |-> OrElse(profile["notes"], EmptyObj),
          cachedContent       |-> OrElse(profile["cached_content"], EmptyObj),
          translation         |-> OrElse(profile["translation"], Str("web")),
          updated_at          |-> OrElse(profile["updated_at"], Undefined) ]

\* The wire key that toSupabase writes for a UserData field; id and updated_at
\* have no line in toSupabase.
WireKeyOf == [ username            |-> "username",
               studyMode           |-> "study_mode",
               readThroughIndex    |-> "read_through_index",
               userSelectedChapter |-> "user_selected_chapter",
               completedChapters   |-> "completed_chapters",
               bookmarks           |-> "bookmarks",
               notes               |-> "notes",
               cachedContent       |-> "cached_content",
               translation         |-> "translation" ]

\* data.f for a Partial<UserData>: undefined when the field is absent
Field(data, f) == IF f \in DOMAIN data THEN data[f] ELSE Undefined

\* A mutated encoder that defaults the fields missing from the input instead
\* of omitting them.
toSupabaseDefaulting(data) ==
    LET defaults == [ username            |-> Str("User"),
                      studyMode           |-> Str(READ_THROUGH),
                      readThroughIndex    |-> Num(0),
                      userSelectedChapter |-> Null,
                      completedChapters   |-> EmptyArr,
                      bookmarks           |-> EmptyArr,
                      notes               |-> EmptyObj,
                      cachedContent       |-> EmptyObj,
                      translation         |-> Str("web") ]
    IN  [ k \in {WireKeyOf[f] : f \in DOMAIN WireKeyOf} |->
            LET f == CHOOSE g \in DOMAIN WireKeyOf : WireKeyOf[g] = k
            IN  IF Field(data, f) # Undefined THEN data[f] ELSE defaults[f] ]

\* const toSupabase = (data: Partial<UserData>): Partial<ProfileUpdate>
\*   if (data.f !== undefined) dbData.wire_f = data.f;   (nine fields)
toSupabase(data) ==
    LET emitted == {f \in DOMAIN WireKeyOf : Field(data, f) # Undefined}
    IN  [ k \in {WireKeyOf[f] : f \in emitted} |->
            LET f == CHOOSE g \in emitted : WireKeyOf[g] = k
            IN  data[f] ]

\* new Date().toISOString()
NowTimestamp == Str("now")

\* The row after supabase.from('profiles').update(patch).eq('id', id) has been
\* applied by the backend.
ApplyUpdate(r, id, patch) ==
    IF r["id"] = Str(id)
    THEN [ k \in WireFields |-> IF k \in DOMAIN patch THEN patch[k] ELSE r[k] ]
    ELSE r

\* The body of the request updateUserData sends:
\*   { ...updateData, updated_at: new Date().toISOString() }
UpdateBody(data) ==
    LET updateData == toSupabase(data)
    IN  [ k \in DOMAIN updateData \cup {"updated_at"} |->
            IF k = "updated_at" THEN NowTimestamp ELSE updateData[k] ]


----------------------------------------------------------------------------
(* utils/cache.ts: robustSafeParse over window.localStorage *)

\* A stored string, kept as its sequence of characters
Raw(chars) == [t |-> "raw", v |-> chars]

\* The characters stored strings are built from: enough for JSON numbers and
\* (nested) arrays, and for text that is no JSON
RawAlphabet == {"[", "]", ",", "1"}

RECURSIVE DigitsEnd(_, _)
\* Index of the last character of the run of digits that starts at s[i]
DigitsEnd(s, i) ==
    IF i < Len(s) /\ s[i + 1] = "1" THEN DigitsEnd(s, i + 1) ELSE i

RECURSIVE DecimalValue(_, _, _)
\* The number written by the digits s[i..j]
DecimalValue(s, i, j) ==
    IF i > j THEN 0 ELSE 10 * DecimalValue(s, i, j - 1) + 1

RECURSIVE ParseValue(_, _)
RECURSIVE ParseElements(_, _, _)
\* JSON value starting at s[i]: [ok, v, next], next the index after the value
ParseValue(s, i) ==
    IF i > Len(s) THEN [ok |-> FALSE]
    ELSE IF s[i] = "1"
         THEN LET j == DigitsEnd(s, i)
              IN  [ok |-> TRUE, v |-> Num(DecimalValue(s, i, j)), next |-> j + 1]
    ELSE IF s[i] = "["
         THEN IF i < Len(s) /\ s[i + 1] = "]"
              THEN [ok |-> TRUE, v |-> EmptyArr, next |-> i + 2]
              ELSE ParseElements(s, i + 1, <<>>)
    ELSE IF s[i] = "{"
         \* a member would start with a double quote
         THEN IF i < Len(s) /\ s[i + 1] = "}"
              THEN [ok |-> TRUE, v |-> EmptyObj, next |-> i + 2]
              ELSE [ok |-> FALSE]
    ELSE [ok |-> FALSE]

\* The elements of an array from s[i] on, up to and including the closing "]"
ParseElements(s, i, acc) ==
    LET e == ParseValue(s, i)
    IN  IF ~e.ok \/ e.next > Len(s) THEN [ok |-> FALSE]
        ELSE IF s[e.next] = ","
             THEN ParseElements(s, e.next + 1, Append(acc, e.v))
        ELSE IF s[e.next] = "]"
             THEN [ok |-> TRUE, v |-> Arr(Append(acc, e.v)), next |-> e.next + 1]
        ELSE [ok |-> FALSE]

\* JSON.parse(raw): ok = FALSE stands for the SyntaxError it throws
JSONParse(s) ==
    LET r == ParseValue(s, 1)
    IN  IF r.ok /\ r.next = Len(s) + 1 THEN [ok |-> TRUE, v |-> r.v] ELSE [ok |-> FALSE]

\* localStorage.getItem(key)
GetItem(store, key) == IF key \in DOMAIN store THEN store[key] ELSE Null

\* localStorage.removeItem(key)
RemoveItem(store, key) == [k \in DOMAIN store \ {key} |-> store[k]]

\* !raw for the result of getItem: null or the empty string
NoRaw(raw) == raw.t = "null" \/ Len(raw.v) = 0

\* A mutated guard that returns the fallback for a corrupted entry but leaves
\* the entry in place.
robustSafeParseKeeping(store, key, fallback, onCorrupt) ==
    LET raw == GetItem(store, key)
    IN  IF NoRaw(raw)
        THEN [result |-> fallback, store |-> store, callbacks |-> 0]
        ELSE IF JSONParse(raw.v).ok
             THEN [result |-> JSONParse(raw.v).v, store |-> store, callbacks |-> 0]
             ELSE [result |-> fallback, store |-> store,
                   callbacks |-> IF onCorrupt THEN 1 ELSE 0]

\* robustSafeParse(key, fallback, onCorrupt): the value returned, the storage
\* afterwards and the number of onCorrupt invocations; onCorrupt tells whether
\* the optional callback was passed.
robustSafeParse(store, key, fallback, onCorrupt) ==
    LET raw == GetItem(store, key)
    IN  IF NoRaw(raw)
        THEN [result |-> fallback, store |-> store, callbacks |-> 0]
        ELSE IF JSONParse(raw.v).ok
             THEN [result |-> JSONParse(raw.v).v, store |-> store, callbacks |-> 0]
             ELSE [result |-> fallback, store |-> RemoveItem(store, key),
                   callbacks |-> IF onCorrupt THEN 1 ELSE 0]

----------------------------------------------------------------------------
(* StudyApp.tsx: getCacheKey *)

\* The characters the regular expression \s matches
Whitespace == {" ", "\t", "\n"}

\* String(n) for a chapter number: its decimal digits
DigitChar == <<"0", "1", "2", "3", "4", "5", "6", "7", "8", "9">>

RECURSIVE NumberToString(_)
NumberToString(n) ==
    IF n < 10 THEN <<DigitChar[n + 1]>>
    ELSE NumberToString(n \div 10) \o <<DigitChar[(n % 10) + 1]>>

\* A mutated replace without the g flag: only the first whitespace character
\* becomes "_".
ReplaceFirstWhitespace(chars) ==
    LET hits == {i \in 1..Len(chars) : chars[i] \in Whitespace}
    IN  [ i \in 1..Len(chars) |->
            IF hits # {} /\ i = CHOOSE h \in hits : \A g \in hits : h <= g
            THEN "_" ELSE chars[i] ]

\* book.replace(/\s/g, '_')
ReplaceWhitespace(chars) ==
    [ i \in 1..Len(chars) |-> IF chars[i] \in Whitespace THEN "_" ELSE chars[i] ]

\* `${identifier.book.replace(/\s/g, '_')}-${identifier.chapter}-${translation}`
\* with the book name given as its characters and the translation code kept
\* as one token
getCacheKey(book, chapter, translation) ==
    ReplaceWhitespace(book) \o <<"-">> \o NumberToString(chapter) \o <<"-">> \o <<translation>>

----------------------------------------------------------------------------
(* Specification SpecCodec: fromSupabase, toSupabase and updateUserData applied
   to bounded sets of rows and partial updates, one codec operation per
   behaviour. *)

MaxMalformed  == 1   \* fields of the initial row that deviate from a fresh profile

UserId == "u1"
OtherId == "u2"

\* A chapter reference as the app stores it in user_selected_chapter
ChapterRef(book, chapter) == Obj([book |-> Str(book), chapter |-> Num(chapter)])

\* The row createProfileForUser inserts (user_selected_chapter and updated_at
\* are left to the database)
FreshRow ==
    [ id                    |-> Str(UserId),
      updated_at            |-> Null,
      username              |-> Str("ann"),
      study_mode            |-> Str(READ_THROUGH),
      read_through_index    |-> Num(0),
      user_selected_chapter |-> Null,
      completed_chapters    |-> EmptyArr,
      bookmarks             |-> EmptyArr,
      notes                 |-> EmptyObj,
      cached_content        |-> EmptyObj,
      translation           |-> Str("web") ]

\* What a loosely typed JSON column or a missing field may hold
WireVals ==
    { Undefined, Null, Bool(FALSE), Num(0), Num(7), Str(""), Str("Book Study"),
      Str("zzz"), Arr(<<"Genesis-1">>), Obj([book |-> Str("Genesis")]),
      Obj([chapter |-> Num(1)]), Obj([book |-> Num(7), chapter |-> Num(1)]),
      Obj([book |-> Str("Genesis"), chapter |-> Str("1")]),
      ChapterRef("Genesis", 1) }

\* The rows that differ from FreshRow in the fields D only
RowsDeviating(D) ==
    { [f \in WireFields |-> IF f \in D THEN g[f] ELSE FreshRow[f]] : g \in [D -> WireVals] }

WireRows ==
    UNION { RowsDeviating(D) :
              D \in {x \in SUBSET (WireFields \ {"id"}) : Cardinality(x) <= MaxMalformed} }

\* Values a caller may put into one field of a partial update
DataVals == { Undefined, Null, Str("Book Study"), Arr(<<"Genesis-1">>) }

\* The partial updates the handlers of StudyApp build hold one field; the
\* empty update is added
PartialUpdates ==
    {<<>>} \cup UNION { [{f} -> DataVals] : f \in UserDataFields }

\* The application is not started in the specifications of the pure functions
AppNotStarted ==
    /\ currentUser = Null
    /\ view = NoValue
    /\ cacheResetBanner = FALSE
    /\ tasks = <<>>
    /\ userOp = NoValue
    /\ profileCall = NoValue
    /\ auth = NoValue
    /\ cacheOp = NoValue
    /\ chat = NoValue

InitOther_Codec ==
    /\ localStorage = <<>>
    /\ parseLog = <<>>
    /\ corruptCalls = 0
    /\ keyIn = NoValue
    /\ keyOut = NoValue
    /\ AppNotStarted

InitCodec ==
    /\ row \in WireRows
    /\ decoded = NoValue
    /\ lastData = NoValue
    /\ lastPatch = NoValue
    /\ rowBefore = NoValue
    /\ InitOther_Codec

\* getUserData's "return fromSupabase(data as ProfileRow)"
Decode ==
    /\ decoded.t = "none" /\ lastData.t = "none"
    /\ decoded' = Obj(fromSupabase(row))
    /\ UNCHANGED <<row, lastData, lastPatch, rowBefore>>
    /\ UNCHANGED <<parseVars, keyVars, appVars>>

\* updateUserData(id, data); the backend either applies the update or answers
\* with an error, which updateUserData only logs.
UpdateUserData(id, data, applied) ==
    /\ decoded.t = "none" /\ lastData.t = "none"
    /\ lastData' = Obj(data)
    /\ lastPatch' = Obj(toSupabase(data))
    /\ rowBefore' = row
    /\ row' = IF applied THEN ApplyUpdate(row, id, UpdateBody(data)) ELSE row
    /\ UNCHANGED decoded
    /\ UNCHANGED <<parseVars, keyVars, appVars>>

NextCodec ==
    \/ Decode
    \/ \E id \in {UserId, OtherId}, data \in PartialUpdates, applied \in BOOLEAN :
         UpdateUserData(id, data, applied)

SpecCodec == InitCodec /\ [][NextCodec]_vars


----------------------------------------------------------------------------
(* Claims about the profile codec (SpecCodec) *)

IsPlainObject(x) == x.t = "object"

WellShapedChapter(x) ==
    /\ x.t = "object"
    /\ "book" \in DOMAIN x.v /\ x.v["book"].t = "string"
    /\ "chapter" \in DOMAIN x.v /\ x.v["chapter"].t = "number"

\* C21: fromSupabase keeps user_selected_chapter when it is an object with a
\* string book and a numeric chapter; every other value (null, a primitive, an
\* array, an object missing a field or with a field of the wrong type) decodes
\* to userSelectedChapter = null, and the decoding raises nothing.
C21_ChapterTrustedOnlyWhenWellShaped ==
    decoded.t # "none" =>
        /\ ~isChapterIdentifierRaises(row["user_selected_chapter"])
        /\ decoded.v.userSelectedChapter =
             IF WellShapedChapter(row["user_selected_chapter"])
             THEN row["user_selected_chapter"] ELSE Null

\* A row whose chapter reference lacks the chapter number has been decoded
C21_Witness ==
    /\ decoded.t # "none"
    /\ row["user_selected_chapter"] = Obj([book |-> Str("Genesis")])
    /\ decoded.v.userSelectedChapter = Null

\* The wire name of every UserData field (id and updated_at keep their names)
WireNameOf ==
    [ f \in UserDataFields |-> IF f \in DOMAIN WireKeyOf THEN WireKeyOf[f] ELSE f ]

----------------------------------------------------------------------------
(* Specification SpecParse: robustSafeParse called on a local storage that
   holds arbitrary short strings. *)

MaxRawLen     == 3   \* length of a stored string
MaxParseCalls == 2   \* robustSafeParse calls per behaviour

RECURSIVE StringsUpTo(_)
StringsUpTo(n) ==
    IF n = 0 THEN {<<>>}
    ELSE LET shorter == StringsUpTo(n - 1)
         IN  shorter \cup {Append(s, c) : s \in shorter, c \in RawAlphabet}

RawStrings == StringsUpTo(MaxRawLen)

CacheStorageKey == "cachedContent"
OtherStorageKey == "enrichmentCollapsed"

\* The fallback StudyApp passes (userData.cachedContent || {}) stands for any T
Fallbacks == {Obj([fallback |-> Bool(TRUE)])}

Stores ==
    { s \in UNION { [ks -> {Raw(x) : x \in RawStrings}] :
                      ks \in SUBSET {CacheStorageKey, OtherStorageKey} } :
        OtherStorageKey \in DOMAIN s => s[OtherStorageKey].v \in {<<"1">>, <<"[">>} }

InitParse ==
    /\ localStorage \in Stores
    /\ parseLog = <<>>
    /\ corruptCalls = 0
    /\ row = FreshRow
    /\ decoded = NoValue
    /\ lastData = NoValue
    /\ lastPatch = NoValue
    /\ rowBefore = NoValue
    /\ keyIn = NoValue
    /\ keyOut = NoValue
    /\ AppNotStarted

RobustSafeParse(key, fallback, onCorrupt) ==
    LET r == robustSafeParse(localStorage, key, fallback, onCorrupt)
    IN  /\ Len(parseLog) < MaxParseCalls
        /\ localStorage' = r.store
        /\ corruptCalls' = corruptCalls + r.callbacks
        /\ parseLog' = Append(parseLog,
                          [ key |-> key, raw |-> GetItem(localStorage, key),
                            fallback |-> fallback, onCorrupt |-> onCorrupt,
                            result |-> r.result, before |-> localStorage,
                            after |-> r.store, callbacks |-> r.callbacks ])
        /\ UNCHANGED <<codecVars, keyVars, appVars>>

NextParse ==
    \E key \in {CacheStorageKey, OtherStorageKey}, fallback \in Fallbacks,
       onCorrupt \in BOOLEAN :
        RobustSafeParse(key, fallback, onCorrupt)

SpecParse == InitParse /\ [][NextParse]_vars


----------------------------------------------------------------------------
(* Claims about robustSafeParse (SpecParse) *)

\* The stored value read by a call is a string JSON.parse rejects
Unparseable(e) == e.raw.t = "raw" /\ ~JSONParse(e.raw.v).ok

\* The call returned the fallback and left local storage as it was
FallbackNothingRemoved(e) ==
    e.result = e.fallback /\ e.after = e.before /\ e.callbacks = 0

\* The call returned the fallback, removed exactly its key and invoked the
\* callback once (if one was passed)
FallbackKeyRemoved(e) ==
    /\ e.result = e.fallback
    /\ e.key \notin DOMAIN e.after
    /\ \A k \in DOMAIN e.before \ {e.key} : k \in DOMAIN e.after /\ e.after[k] = e.before[k]
    /\ e.callbacks = (IF e.onCorrupt THEN 1 ELSE 0)

\* Every later read of the same key returns the fallback without a callback
LaterReadsQuiet(i) ==
    \A j \in (i + 1)..Len(parseLog) :
        parseLog[j].key = parseLog[i].key => FallbackNothingRemoved(parseLog[j])

ParsedNothingRemoved(e) ==
    /\ e.result = JSONParse(e.raw.v).v
    /\ e.after = e.before
    /\ e.callbacks = 0

\* C8 as stated: on an unparseable string robustSafeParse returns the fallback,
\* removes the key and invokes the callback exactly once (a second read returns
\* the fallback with no further callback); on valid JSON it returns the parsed
\* value, removes nothing and calls nothing; on an absent key it returns the
\* fallback and removes nothing.
C8_EveryUnparseableStringIsHealed ==
    \A i \in 1..Len(parseLog) :
        LET e == parseLog[i]
        IN  /\ Unparseable(e) => FallbackKeyRemoved(e) /\ LaterReadsQuiet(i)
            /\ (e.raw.t = "raw" /\ JSONParse(e.raw.v).ok) => ParsedNothingRemoved(e)
            /\ e.raw.t = "null" => FallbackNothingRemoved(e)

\* C8 as amended: the same, for an unparseable string that is not empty; a key
\* holding the empty string is treated like an absent key (fallback returned,
\* nothing removed, no callback).  The callbacks counted over all calls are the
\* ones of the healed reads.
C8_NonEmptyUnparseableStringIsHealed ==
    /\ \A i \in 1..Len(parseLog) :
        LET e == parseLog[i]
        IN  /\ (Unparseable(e) /\ Len(e.raw.v) > 0) =>
                 FallbackKeyRemoved(e) /\ LaterReadsQuiet(i)
            /\ (e.raw.t = "raw" /\ JSONParse(e.raw.v).ok) => ParsedNothingRemoved(e)
            /\ (e.raw.t = "null" \/ (e.raw.t = "raw" /\ Len(e.raw.v) = 0)) =>
                 FallbackNothingRemoved(e)
    /\ corruptCalls =
         Cardinality({ i \in 1..Len(parseLog) :
                         /\ Unparseable(parseLog[i])
                         /\ Len(parseLog[i].raw.v) > 0
                         /\ parseLog[i].onCorrupt })

\* A corrupted non-empty entry was read twice, the first time with a callback
C8_Witness ==
    /\ Len(parseLog) = 2
    /\ parseLog[1].key = parseLog[2].key
    /\ Unparseable(parseLog[1])
    /\ Len(parseLog[1].raw.v) > 0
    /\ parseLog[1].onCorrupt
    /\ corruptCalls = 1


----------------------------------------------------------------------------
(* Specification SpecKey: getCacheKey applied to two (book, chapter,
   translation) triples. *)

MaxNameLen == 3   \* characters in a book name

NameAlphabet == {"a", " ", "\t"}

RECURSIVE NamesUpTo(_)
NamesUpTo(n) ==
    IF n = 0 THEN {<<>>}
    ELSE LET shorter == NamesUpTo(n - 1)
         IN  shorter \cup {Append(s, c) : s \in shorter, c \in NameAlphabet}

KeyChapters == {1, 12}

\* Book names hold at least one letter
BookNames == {n \in NamesUpTo(MaxNameLen) : \E i \in 1..Len(n) : n[i] \notin Whitespace}

Triples ==
    [ book : BookNames, chapter : KeyChapters, translation : TranslationKeys ]

InitKey ==
    /\ keyIn \in Triples \X Triples
    /\ keyOut = NoValue
    /\ row = FreshRow
    /\ decoded = NoValue
    /\ lastData = NoValue
    /\ lastPatch = NoValue
    /\ rowBefore = NoValue
    /\ localStorage = <<>>
    /\ parseLog = <<>>
    /\ corruptCalls = 0
    /\ AppNotStarted

ComputeKeys ==
    /\ keyOut = NoValue
    /\ keyOut' = [ t |-> "keys",
                   v |-> << getCacheKey(keyIn[1].book, keyIn[1].chapter, keyIn[1].translation),
                            getCacheKey(keyIn[2].book, keyIn[2].chapter, keyIn[2].translation) >> ]
    /\ UNCHANGED keyIn
    /\ UNCHANGED <<codecVars, parseVars, appVars>>

NextKey == ComputeKeys

SpecKey == InitKey /\ [][NextKey]_vars

----------------------------------------------------------------------------
(* Claims about getCacheKey (SpecKey) *)

RECURSIVE CollapseWhitespace(_, _)
\* The name with every run of whitespace replaced by one space; pendingSpace tells
\* that whitespace was skipped since the last character kept
CollapseWhitespace(chars, pendingSpace) ==
    IF chars = <<>> THEN <<>>
    ELSE IF Head(chars) \in Whitespace
         THEN CollapseWhitespace(Tail(chars), TRUE)
         ELSE (IF pendingSpace THEN <<" ">> ELSE <<>>) \o <<Head(chars)>>
              \o CollapseWhitespace(Tail(chars), FALSE)

RECURSIVE TrimLeft(_)
TrimLeft(chars) ==
    IF chars # <<>> /\ Head(chars) \in Whitespace THEN TrimLeft(Tail(chars)) ELSE chars

\* Trimmed, and inner whitespace runs collapsed: the name up to whitespace variations
NormalizedName(chars) == CollapseWhitespace(TrimLeft(chars), FALSE)

\* The two names differ at most in which whitespace character stands where
SameUpToWhitespaceCharacter(a, b) ==
    /\ Len(a) = Len(b)
    /\ \A i \in 1..Len(a) : a[i] = b[i] \/ (a[i] \in Whitespace /\ b[i] \in Whitespace)

SameChapterAndTranslation ==
    keyIn[1].chapter = keyIn[2].chapter /\ keyIn[1].translation = keyIn[2].translation

\* C9 as stated: the same (book, chapter, translation) yields the same key
\* whatever the whitespace variation of the book name: other whitespace
\* characters, repeated, leading or trailing whitespace.
C9_KeyIgnoresWhitespaceVariations ==
    (keyOut.t = "keys" /\ SameChapterAndTranslation
       /\ NormalizedName(keyIn[1].book) = NormalizedName(keyIn[2].book))
    => keyOut.v[1] = keyOut.v[2]

\* C9 as amended: the key is the same whichever whitespace character stands at
\* each position of the book name; repeated, leading or trailing whitespace is
\* not normalised: names of different length get different keys.
C9_KeyIgnoresWhitespaceCharacter ==
    (keyOut.t = "keys" /\ SameChapterAndTranslation) =>
        /\ SameUpToWhitespaceCharacter(keyIn[1].book, keyIn[2].book)
             => keyOut.v[1] = keyOut.v[2]
        /\ Len(keyIn[1].book) # Len(keyIn[2].book) => keyOut.v[1] # keyOut.v[2]

\* Two different spellings of one name with two whitespace characters
C9_Witness ==
    /\ keyOut.t = "keys"
    /\ SameChapterAndTranslation
    /\ keyIn[1].book = <<"a", " ", "\t">>
    /\ keyIn[2].book = <<"a", "\t", " ">>
    /\ keyOut.v[1] = keyOut.v[2]


----------------------------------------------------------------------------
(* constants.ts is not among the sources: the canon table and the reading
   plan are cut down to two one-chapter books. *)

BIBLE_BOOKS == << [name |-> "Ruth", chapters |-> 2], [name |-> "1 John", chapters |-> 2] >>

READING_PLAN == << ChapterRef("Ruth", 1), ChapterRef("1 John", 1), ChapterRef("Ruth", 2) >>

\* The characters of the book names in use
BookChars(name) ==
    CASE name = "Ruth"   -> <<"R", "u", "t", "h">>
      [] name = "1 John" -> <<"1", " ", "J", "o", "h", "n">>

----------------------------------------------------------------------------
(* bibleApiService.ts and geminiService.ts: what the three fetches return *)

\* getChapterTextFromApi resolves with a non-empty verse list ...
ChapterVerses(chapter) ==
    Arr(<< [ book_name |-> chapter.v.book.v, chapter |-> chapter.v.chapter.v,
             verse |-> 1, text |-> <<"In", "the", "days">> ] >>)

\* ... or rejects with an Error; the message is kept as its words
TextErrors == { <<"Daily", "quota", "exceeded">>, <<"Passage", "not", "found">> }

\* error.message.includes("quota")
IncludesQuota(message) == \E i \in 1..Len(message) : message[i] = "quota"

\* getChapterDeepDive: the parsed study guide, or null when the request failed
DeepDive(chapter) ==
    Obj([ summaryAndThemes |-> chapter.v.book.v, reflectionQuestions |-> <<"q1">> ])

\* getAllChapterEnrichments: the parsed enrichments ...
Enrichments(chapter) ==
    Obj([ crossReferences   |-> << [reference |-> chapter.v.book.v, verse |-> 1] >>,
          wordStudies       |-> << [originalWord |-> "hesed", verse |-> 1] >>,
          historicalContext |-> [geography |-> "Moab", customs |-> "gleaning",
                                 politicalClimate |-> "judges"],
          literaryAnalysis  |-> [structure |-> "narrative", themes |-> <<"loyalty">>],
          interpretations   |-> << [viewpoint |-> "a", verse |-> 1] >> ])

\* ... or, when the request failed, the empty structure of its catch block
EmptyEnrichments ==
    Obj([ crossReferences   |-> <<>>,
          wordStudies       |-> <<>>,
          historicalContext |-> [geography |-> "", customs |-> "", politicalClimate |-> ""],
          literaryAnalysis  |-> [structure |-> "", themes |-> <<>>],
          interpretations   |-> <<>> ])

----------------------------------------------------------------------------
(* authService.ts: getUserData *)

MaxAttempts    == 3      \* for (let attempt = 1; attempt <= 3; attempt++)
BackoffUnit    == 500    \* await delay(attempt * 500)
NotFoundCode   == "PGRST116"

\* How the backend may answer the profile query of one attempt: the row, an
\* error object with a code (and no data), or a rejected promise
QueryAnswers == {"row", NotFoundCode, "42501", "threw"}

\* `const { data, error }` is declared inside the try block (line 657); the
\* statements after the try block (lines 682-693) name `error` and `data`
\* outside that scope, where no binding of these names exists.
TryBindingsVisibleAfterTry == FALSE

\* One pass through the body of the attempt loop.  answer: the backend's
\* answer; slow: the 2000ms timer fired before the answer came (didTimeout).
\* The result is what the pass does: return a value, throw, or go on to the
\* next attempt after a delay.
getUserDataAttempt(r, attempt, answer, slow) ==
    IF answer = "threw"
    THEN [kind |-> "return", value |-> Null]                    \* catch (err) { return null; }
    ELSE IF answer = "row"
    THEN [kind |-> "return", value |-> Obj(fromSupabase(r))]    \* if (data) return fromSupabase(data)
    ELSE IF slow
    THEN [kind |-> "return", value |-> Null]                    \* if (didTimeout) return null;
    ELSE IF ~TryBindingsVisibleAfterTry
    THEN [kind |-> "throw", error |-> "ReferenceError"]         \* if (error && ...)
    ELSE IF answer # NotFoundCode
    THEN [kind |-> "return", value |-> Null]                    \* hard error: no retry
    ELSE IF attempt < MaxAttempts
    THEN [kind |-> "retry", delay |-> attempt * BackoffUnit]
    ELSE [kind |-> "return", value |-> Null]                    \* all retries failed

\* The bookkeeping of one getUserData call
NoCall == [attempt |-> 0, queries |-> 0, delays |-> <<>>, result |-> "none"]
NewCall == [attempt |-> 1, queries |-> 0, delays |-> <<>>, result |-> "pending"]

\* The call after one more pass through the loop body
CallAfter(call, out) ==
    [ attempt |-> IF out.kind = "retry" THEN call.attempt + 1 ELSE call.attempt,
      queries |-> call.queries + 1,
      delays  |-> IF out.kind = "retry" THEN Append(call.delays, out.delay) ELSE call.delays,
      result  |-> CASE out.kind = "retry"  -> "pending"
                    [] out.kind = "throw"  -> "threw"
                    [] out.value = Null    -> "null"
                    [] OTHER               -> "profile" ]


----------------------------------------------------------------------------
(* StudyApp.tsx: the values derived from userData on every render *)

safeStudyMode(u)           == OrElse(u.studyMode, Str(READ_THROUGH))
safeReadThroughIndex(u)    == Coalesce(u.readThroughIndex, Num(0))
safeUserSelectedChapter(u) == OrElse(u.userSelectedChapter, Null)
safeTranslation(u)         == OrElse(u.translation, Str("web"))

\* robustSafeParse('cachedContent', userData.cachedContent || {}, () => setCacheResetBanner(true))
\* followed by the typeof guard: the value, and what the read did to local storage
safeCachedContent(store, u) ==
    LET r == robustSafeParse(store, CacheStorageKey, OrElse(u.cachedContent, EmptyObj), TRUE)
    IN  [ value     |-> IF TypeOf(r.result) # "object" \/ r.result = Null
                        THEN EmptyObj ELSE r.result,
          store     |-> r.store,
          corrupted |-> r.callbacks > 0 ]

currentChapter(u) ==
    IF safeStudyMode(u) = Str(READ_THROUGH)
    THEN IF safeReadThroughIndex(u).v < Len(READING_PLAN)
         THEN READING_PLAN[safeReadThroughIndex(u).v + 1]
         ELSE Null
    ELSE safeUserSelectedChapter(u)

\* const cacheKey = currentChapter ? getCacheKey(currentChapter, safeTranslation) : null
cacheKey(u) ==
    IF Truthy(currentChapter(u))
    THEN Raw(getCacheKey(BookChars(currentChapter(u).v.book.v),
                         currentChapter(u).v.chapter.v, safeTranslation(u).v))
    ELSE Null

\* safeCachedContent?.[cacheKey]
Lookup(content, key) ==
    IF content.t = "object" /\ key \in DOMAIN content.v THEN content.v[key] ELSE Undefined

\* { ...safeCachedContent, [cacheKey]: dataToCache }
SpreadWith(content, key, value) ==
    LET old == IF content.t = "object" THEN content.v ELSE <<>>
    IN  Obj([ k \in DOMAIN old \cup {key} |-> IF k = key THEN value ELSE old[k] ])

----------------------------------------------------------------------------
(* StudyApp.tsx: the fetch effect and fetchAllChapterData *)

MaxTasks == 1   \* runs of fetchAllChapterData that can be in flight together

\* The slots of the runs of fetchAllChapterData
Slots == DOMAIN tasks

IdleTask ==
    [ pc |-> "idle", chapter |-> Null, key |-> Null, snap |-> EmptyObj,
      chapterVerses |-> NoValue, deepDive |-> NoValue, enrichments |-> NoValue,
      textRes |-> "none", ddRes |-> "none", enRes |-> "none",
      textCalls |-> 0, ddCalls |-> 0, enCalls |-> 0, updCalls |-> 0,
      persist |-> "none", path |-> "none", call |-> NoCall,
      error |-> <<>> ]   \* the message of the error the catch block caught

\* useState(true), useState([]), useState(null), useState(null)
InitialView ==
    [ isChapterLoading |-> TRUE, verses |-> EmptyArr,
      deepDiveData |-> Null, allEnrichmentData |-> Null ]

QuotaMessage == <<"Daily", "API", "quota", "exceeded">>
GenericMessage(message) == <<"There", "was", "an", "error">> \o message \o <<"Please", "try", "again">>

\* A mutated catch block that shows the generic message for every error.
ErrorFallbackAlwaysGeneric(vw, chapter, message) ==
    [ vw EXCEPT
        !.verses = Arr(<< [ book_name |-> chapter.v.book.v, chapter |-> chapter.v.chapter.v,
                            verse |-> 0, text |-> GenericMessage(message) ] >>),
        !.allEnrichmentData = EmptyEnrichments,
        !.isChapterLoading = FALSE ]

\* The catch block of fetchAllChapterData followed by its finally block
ErrorFallback(vw, chapter, message) ==
    [ vw EXCEPT
        !.verses = Arr(<< [ book_name |-> chapter.v.book.v, chapter |-> chapter.v.chapter.v,
                            verse |-> 0,
                            text |-> IF IncludesQuota(message) THEN QuotaMessage
                                     ELSE GenericMessage(message) ] >>),
        !.allEnrichmentData = EmptyEnrichments,
        !.isChapterLoading = FALSE ]

\* The slot a new run takes: the lowest slot that is not in flight, other than
\* the slot of the run that is just ending if there is another one
Free(tk, self) == {s \in Slots : s # self /\ tk[s].pc \in {"idle", "done"}}
NewSlot(tk, self) ==
    IF Free(tk, self) # {} THEN CHOOSE s \in Free(tk, self) : \A o \in Free(tk, self) : s <= o
    ELSE self

\* One run of the effect (lines 93-167) up to its first await, for the render
\* of user data u: the view, the tasks and local storage afterwards
RunEffect(u, store, vw, tk, slot) ==
    LET cc     == currentChapter(u)
        key    == cacheKey(u)
        sc     == safeCachedContent(store, u)
        cached == Lookup(sc.value, key.v)
        run    == [ IdleTask EXCEPT !.chapter = cc, !.key = key, !.snap = sc.value ]
    IN  IF Truthy(cc) /\ key # Null /\ safeStudyMode(u) # Str(SCRIPTURE_READER)
        THEN IF Truthy(cached)
             THEN [ view  |-> [ isChapterLoading  |-> FALSE,
                                verses            |-> cached.v.verses,
                                deepDiveData      |-> cached.v.deepDiveData,
                                allEnrichmentData |-> cached.v.allEnrichmentData ],
                    tasks |-> [ tk EXCEPT ![slot] = [run EXCEPT !.pc = "done", !.path = "hit"] ],
                    store |-> sc.store, corrupted |-> sc.corrupted ]
             ELSE [ view  |-> [ isChapterLoading  |-> TRUE,
                                verses            |-> EmptyArr,
                                deepDiveData      |-> Null,
                                allEnrichmentData |-> Null ],
                    tasks |-> [ tk EXCEPT ![slot] = [run EXCEPT !.pc = "text", !.textCalls = 1] ],
                    store |-> sc.store, corrupted |-> sc.corrupted ]
        ELSE [ view  |-> [vw EXCEPT !.isChapterLoading = FALSE],
               tasks |-> tk, store |-> sc.store, corrupted |-> sc.corrupted ]

\* setCurrentUser(u) in App, the re-render of StudyApp and the effect run it causes
SetCurrentUser(u, vw, tk, self) ==
    LET e == RunEffect(u.v, localStorage, vw, tk, NewSlot(tk, self))
    IN  /\ currentUser' = u
        /\ view' = e.view
        /\ tasks' = e.tasks
        /\ localStorage' = e.store
        /\ cacheResetBanner' = (cacheResetBanner \/ e.corrupted)

\* getChapterTextFromApi has answered
TextResponse(t, ok, message) ==
    /\ tasks[t].pc = "text"
    /\ IF ok
       THEN /\ view' = [view EXCEPT !.verses = ChapterVerses(tasks[t].chapter)]
            /\ tasks' = [tasks EXCEPT ![t].pc = "ai", ![t].textRes = "ok",
                                      ![t].chapterVerses = ChapterVerses(tasks[t].chapter),
                                      ![t].ddCalls = 1, ![t].enCalls = 1]
       ELSE /\ view' = ErrorFallback(view, tasks[t].chapter, message)
            /\ tasks' = [tasks EXCEPT ![t].pc = "done", ![t].textRes = "fail",
                                      ![t].path = "fallback", ![t].snap = EmptyObj,
                                      ![t].error = message]
    /\ UNCHANGED <<row, currentUser, localStorage, cacheResetBanner, userOp>>
    /\ UNCHANGED <<passiveVars, parseLog, corruptCalls, keyVars, profileCall, auth, cacheOp, chat>>

\* { verses: chapterVerses, deepDiveData: deepDive, allEnrichmentData: enrichments }
DataToCache(task) ==
    Obj([ verses |-> task.chapterVerses, deepDiveData |-> task.deepDive,
          allEnrichmentData |-> task.enrichments ])

\* The argument of onUpdateUserData at line 132
CachePayload(task) ==
    [ cachedContent |-> SpreadWith(task.snap, task.key.v, DataToCache(task)) ]

\* if (chapterVerses.length > 0 && deepDive && enrichments)
ShouldCache(chapterVerses, deepDive, enrichments) ==
    Len(chapterVerses.v) > 0 /\ Truthy(deepDive) /\ Truthy(enrichments)

\* How the AI service may answer generateContent: with the content, or with a
\* rejection because of a quota or rate limit, or with another failure
AIAnswers == {"ok", "quota", "fail"}

\* Promise.all of getChapterDeepDive and getAllChapterEnrichments has resolved;
\* both catch every rejection of generateContent themselves
AIResponse(t, dd, en) ==
    LET deepDive    == IF dd = "ok" THEN DeepDive(tasks[t].chapter) ELSE Null
        enrichments == IF en = "ok" THEN Enrichments(tasks[t].chapter) ELSE EmptyEnrichments
        cache       == ShouldCache(tasks[t].chapterVerses, deepDive, enrichments)
    IN  /\ tasks[t].pc = "ai"
        /\ view' = [view EXCEPT !.deepDiveData = deepDive, !.allEnrichmentData = enrichments,
                                !.isChapterLoading = IF cache THEN @ ELSE FALSE]
        /\ tasks' = [tasks EXCEPT ![t].pc = IF cache THEN "update" ELSE "done",
                                  ![t].path = IF cache THEN "none" ELSE "fetched",
                                  ![t].ddRes = dd,
                                  ![t].enRes = en,
                                  ![t].deepDive = deepDive,
                                  ![t].enrichments = enrichments,
                                  ![t].updCalls = IF cache THEN 1 ELSE 0,
                                  ![t].snap = IF cache THEN @ ELSE EmptyObj]
        /\ UNCHANGED <<row, currentUser, localStorage, cacheResetBanner, userOp>>
        /\ UNCHANGED <<passiveVars, parseLog, corruptCalls, keyVars, profileCall, auth, cacheOp, chat>>


----------------------------------------------------------------------------
(* App.tsx: handleUpdateUserData, as awaited by fetchAllChapterData *)

\* How the backend may answer the update request of updateUserData; a
\* rejection is only logged there
UpdateAnswers == {"applied", "error"}

ReferenceErrorMessage == <<"error", "is", "not", "defined">>

\* The update request of line 132 has been answered; handleUpdateUserData
\* goes on to getUserData, which sends its first query
UpdateResponse(t, answer) ==
    /\ tasks[t].pc = "update"
    /\ row' = IF answer = "applied"
              THEN ApplyUpdate(row, currentUser.v.id.v, UpdateBody(CachePayload(tasks[t])))
              ELSE row
    /\ tasks' = [tasks EXCEPT ![t].pc = "query", ![t].persist = answer, ![t].call = NewCall]
    /\ UNCHANGED <<currentUser, view, localStorage, cacheResetBanner, userOp>>
    /\ UNCHANGED <<passiveVars, parseLog, corruptCalls, keyVars, profileCall, auth, cacheOp, chat>>

\* The profile query of getUserData has been answered (after the 2000ms timer
\* fired when slow).  A profile goes to setCurrentUser; then, or when
\* getUserData returned null, the await of line 132 resolves and the finally
\* block runs; an exception of getUserData rejects it and the catch block runs.
QueryResponse(t, answer, slow) ==
    LET out   == getUserDataAttempt(row, tasks[t].call.attempt, answer, slow)
        call  == CallAfter(tasks[t].call, out)
        ended == [tasks EXCEPT ![t].pc = "done", ![t].path = "fetched", ![t].call = call,
                               ![t].snap = EmptyObj]
    IN  /\ tasks[t].pc = "query"
        /\ CASE out.kind = "retry" ->
                  /\ tasks' = [tasks EXCEPT ![t].call = call]
                  /\ UNCHANGED <<currentUser, view, localStorage, cacheResetBanner>>
             [] out.kind = "throw" ->
                  /\ tasks' = [ended EXCEPT ![t].path = "fallback",
                                              ![t].error = ReferenceErrorMessage]
                  /\ view' = ErrorFallback(view, tasks[t].chapter, ReferenceErrorMessage)
                  /\ UNCHANGED <<currentUser, localStorage, cacheResetBanner>>
             [] out.kind = "return" /\ Truthy(out.value) ->
                  SetCurrentUser(out.value, [view EXCEPT !.isChapterLoading = FALSE], ended, t)
             [] OTHER ->
                  /\ tasks' = ended
                  /\ view' = [view EXCEPT !.isChapterLoading = FALSE]
                  /\ UNCHANGED <<currentUser, localStorage, cacheResetBanner>>
        /\ UNCHANGED <<row, userOp>>
        /\ UNCHANGED <<passiveVars, parseLog, corruptCalls, keyVars, profileCall, auth, cacheOp, chat>>

----------------------------------------------------------------------------
(* StudyApp.tsx: the handlers that change what chapter is shown *)

IdleOp == [pc |-> "idle", data |-> <<>>, call |-> NoCall]

\* setStudyModeState(mode): onUpdateUserData({ studyMode: mode })
SetStudyModeState(mode) ==
    /\ userOp.pc = "idle"
    /\ userOp' = [pc |-> "update", data |-> [studyMode |-> Str(mode)], call |-> NoCall]
    /\ UNCHANGED <<row, currentUser, view, localStorage, cacheResetBanner, tasks>>
    /\ UNCHANGED <<passiveVars, parseLog, corruptCalls, keyVars, profileCall, auth, cacheOp, chat>>

\* handleSelectChapter(book, chapter), up to its await
HandleSelectChapter(book, chapter) ==
    /\ userOp.pc = "idle"
    /\ userOp' = [pc |-> "update", data |-> [userSelectedChapter |-> ChapterRef(book, chapter)],
                  call |-> NoCall]
    /\ UNCHANGED <<row, currentUser, view, localStorage, cacheResetBanner, tasks>>
    /\ UNCHANGED <<passiveVars, parseLog, corruptCalls, keyVars, profileCall, auth, cacheOp, chat>>

\* The handler's update request has been answered
HandlerUpdateResponse(answer) ==
    /\ userOp.pc = "update"
    /\ row' = IF answer = "applied"
              THEN ApplyUpdate(row, currentUser.v.id.v, UpdateBody(userOp.data))
              ELSE row
    /\ userOp' = [userOp EXCEPT !.pc = "query", !.call = NewCall]
    /\ UNCHANGED <<currentUser, view, localStorage, cacheResetBanner, tasks>>
    /\ UNCHANGED <<passiveVars, parseLog, corruptCalls, keyVars, profileCall, auth, cacheOp, chat>>

\* The handler's profile query has been answered; an exception of getUserData
\* is an unhandled rejection of the handler's promise
HandlerQueryResponse(answer, slow) ==
    LET out  == getUserDataAttempt(row, userOp.call.attempt, answer, slow)
        call == CallAfter(userOp.call, out)
    IN  /\ userOp.pc = "query"
        /\ Free(tasks, 0) # {}
        /\ IF out.kind = "retry"
           THEN /\ userOp' = [userOp EXCEPT !.call = call]
                /\ UNCHANGED <<currentUser, view, localStorage, cacheResetBanner, tasks>>
           ELSE /\ userOp' = IdleOp
                /\ IF out.kind = "return" /\ Truthy(out.value)
                   THEN SetCurrentUser(out.value, view, tasks, 0)
                   ELSE UNCHANGED <<currentUser, view, localStorage, cacheResetBanner, tasks>>
        /\ UNCHANGED row
        /\ UNCHANGED <<passiveVars, parseLog, corruptCalls, keyVars, profileCall, auth, cacheOp, chat>>

----------------------------------------------------------------------------
(* Specification Spec: StudyApp mounted for a signed-in user, the backend and
   the services answering in any way and order, the user changing the study
   mode and the selected chapter. *)

\* A bundle cached by an earlier session
EarlierBundle(chapter) ==
    Obj([ verses |-> ChapterVerses(chapter), deepDiveData |-> DeepDive(chapter),
          allEnrichmentData |-> Enrichments(chapter) ])

\* The profile rows the session may start from: a fresh profile, with or
\* without the first chapter of the plan cached
InitialRows ==
    { FreshRow,
      [ FreshRow EXCEPT !["cached_content"] =
          SpreadWith(EmptyObj, getCacheKey(BookChars("Ruth"), 1, "web"),
                     EarlierBundle(READING_PLAN[1])) ] }

\* Local storage before the first render: nothing, or a leftover
\* 'cachedContent' entry that is no JSON
InitialStores == { <<>>, [k \in {CacheStorageKey} |-> Raw(<<"[">>)] }

Init ==
    \E r \in InitialRows, s \in InitialStores :
        LET u == Obj(fromSupabase(r))
            e == RunEffect(u.v, s, InitialView, [x \in 1..MaxTasks |-> IdleTask], 1)
        IN  /\ row = r
            /\ currentUser = u
            /\ view = e.view
            /\ tasks = e.tasks
            /\ localStorage = e.store
            /\ cacheResetBanner = e.corrupted
            /\ userOp = IdleOp
            /\ decoded = NoValue
            /\ lastData = NoValue
            /\ lastPatch = NoValue
            /\ rowBefore = NoValue
            /\ parseLog = <<>>
            /\ corruptCalls = 0
            /\ keyIn = NoValue
            /\ keyOut = NoValue
            /\ profileCall = NoValue
            /\ auth = NoValue
            /\ cacheOp = NoValue
            /\ chat = NoValue

OpModes == {READ_THROUGH, "Book Study", SCRIPTURE_READER}

Next ==
    \/ \E t \in Slots : TextResponse(t, TRUE, <<>>)
    \/ \E t \in Slots, m \in TextErrors : TextResponse(t, FALSE, m)
    \/ \E t \in Slots, dd \in AIAnswers, en \in AIAnswers : AIResponse(t, dd, en)
    \/ \E t \in Slots, a \in UpdateAnswers : UpdateResponse(t, a)
    \/ \E t \in Slots, a \in QueryAnswers, slow \in BOOLEAN : QueryResponse(t, a, slow)
    \/ \E m \in OpModes : SetStudyModeState(m)
    \/ \E i \in 1..Len(BIBLE_BOOKS) : HandleSelectChapter(BIBLE_BOOKS[i].name, 1)
    \/ \E a \in UpdateAnswers : HandlerUpdateResponse(a)
    \/ \E a \in QueryAnswers, slow \in BOOLEAN : HandlerQueryResponse(a, slow)

Spec == Init /\ [][Next]_vars

----------------------------------------------------------------------------
(* Claims about the chapter fetch pipeline (Spec) *)

AllSucceeded(task) == task.textRes = "ok" /\ task.ddRes = "ok" /\ task.enRes = "ok"

\* The run has got past Promise.all and so has decided whether to cache
DecidedCaching(task) == task.ddRes # "none"

\* C1: a run of fetchAllChapterData writes its bundle to the cache (calls
\* onUpdateUserData with cachedContent) if and only if the verse list is
\* non-empty, the deep dive is non-null and the enrichment fetch did not fail.
C1_CachedIffAllThreeSucceeded ==
    \A t \in Slots :
        DecidedCaching(tasks[t]) => (tasks[t].updCalls = 1 <=> AllSucceeded(tasks[t]))

\* C2: a run whose text-API call failed has still issued the deep-dive and the
\* enrichment request, shows the single error verse and has cached nothing.
C2_TextFailureStillFetchesEnrichments ==
    \A t \in Slots :
        (tasks[t].pc = "done" /\ tasks[t].textRes = "fail")
            => /\ tasks[t].ddCalls = 1
               /\ tasks[t].enCalls = 1
               /\ tasks[t].updCalls = 0

\* C3: a finished run has made exactly one profile-update call when it missed
\* the cache and text, deep dive and enrichments all succeeded, and exactly
\* zero on a cache hit or when any of the three fetches failed.
C3_OneUpdateOnFullSuccessElseNone ==
    \A t \in Slots :
        tasks[t].pc = "done"
            => tasks[t].updCalls =
                 (IF tasks[t].path # "hit" /\ AllSucceeded(tasks[t]) THEN 1 ELSE 0)

\* C4: a finished run that missed the cache has issued exactly one text-API
\* call, one deep-dive call and one enrichment call, followed by exactly one
\* profile-update call if all three succeeded; a run that hit the cache has
\* issued none of them.
C4_OneCallOfEachOnAMiss ==
    \A t \in Slots :
        tasks[t].pc = "done"
            => IF tasks[t].path = "hit"
               THEN tasks[t].textCalls + tasks[t].ddCalls + tasks[t].enCalls = 0
               ELSE /\ tasks[t].textCalls = 1
                    /\ tasks[t].ddCalls = 1
                    /\ tasks[t].enCalls = 1
                    /\ AllSucceeded(tasks[t]) => tasks[t].updCalls = 1

\* Persisting a fully fetched bundle failed: the update was answered with an
\* error, or the re-read that follows it produced no profile
PersistFailed(task) ==
    /\ AllSucceeded(task)
    /\ task.updCalls = 1
    /\ task.persist = "error" \/ task.call.result \in {"null", "threw"}

\* C5: a run that fetched the whole bundle and then failed to persist it does
\* not end in the error fallback (error verse and empty enrichments).
C5_FailedPersistKeepsContent ==
    \A t \in Slots :
        (tasks[t].pc = "done" /\ PersistFailed(tasks[t])) => tasks[t].path # "fallback"

\* The text is a message built around the given failure text
Contains(text, message) ==
    \E i \in 1..(Len(text) - Len(message) + 1) :
        SubSeq(text, i, i + Len(message) - 1) = message

\* The enrichment object is present, its three lists are empty and the fields
\* of its two context objects are empty
AllEmpty(enrichment) ==
    /\ enrichment # Null
    /\ enrichment.v.crossReferences = <<>>
    /\ enrichment.v.wordStudies = <<>>
    /\ enrichment.v.interpretations = <<>>
    /\ enrichment.v.historicalContext = [geography |-> "", customs |-> "", politicalClimate |-> ""]
    /\ enrichment.v.literaryAnalysis = [structure |-> "", themes |-> <<>>]

\* The verse list is one entry with verse number 0 that carries the message
\* for the given failure
ErrorVerseFor(verses, message) ==
    /\ Len(verses.v) = 1
    /\ verses.v[1].verse = 0
    /\ IF IncludesQuota(message)
       THEN verses.v[1].text = QuotaMessage
       ELSE verses.v[1].text # QuotaMessage /\ Contains(verses.v[1].text, message)

QuotaMessageShown ==
    \E i \in 1..Len(view.verses.v) : view.verses.v[i].text = QuotaMessage

\* C17: once the AI service has rejected the deep-dive or the enrichment
\* request of a run because of a quota or rate limit, the quota message is
\* shown, and each of the two requests was issued once only.
C17_AIQuotaShowsQuotaMessage ==
    \A t \in Slots :
        (tasks[t].ddRes = "quota" \/ tasks[t].enRes = "quota")
            => /\ QuotaMessageShown
               /\ tasks[t].ddCalls = 1 /\ tasks[t].enCalls = 1

\* C23: a run of the fetch pipeline ends in Done and the pipeline does not
\* restart itself: while no navigation is under way, the end of a run never
\* starts another fetch.
C23_NoRestartWithoutNavigation ==
    [][ \A t \in Slots :
          ~(userOp.pc = "idle" /\ tasks[t].pc = "query" /\ tasks'[t].pc = "text") ]_vars

----------------------------------------------------------------------------
(* Specification SpecRace: Book Study of a chapter whose fetch is in flight
   when the user selects other chapters; every service and every backend
   request succeeds, and two runs of fetchAllChapterData can be in flight
   together. *)

MaxRaceTasks == 2

\* The profile at the start: Book Study of Ruth 1, nothing cached
RaceRow ==
    ApplyUpdate(FreshRow, UserId,
                UpdateBody([ studyMode |-> Str("Book Study"),
                             userSelectedChapter |-> ChapterRef("Ruth", 1) ]))

InitRace ==
    LET u == Obj(fromSupabase(RaceRow))
        e == RunEffect(u.v, <<>>, InitialView, [x \in 1..MaxRaceTasks |-> IdleTask], 1)
    IN  /\ row = RaceRow
        /\ currentUser = u
        /\ view = e.view
        /\ tasks = e.tasks
        /\ localStorage = e.store
        /\ cacheResetBanner = e.corrupted
        /\ userOp = IdleOp
        /\ decoded = NoValue
        /\ lastData = NoValue
        /\ lastPatch = NoValue
        /\ rowBefore = NoValue
        /\ parseLog = <<>>
        /\ corruptCalls = 0
        /\ keyIn = NoValue
        /\ keyOut = NoValue
        /\ profileCall = NoValue
        /\ auth = NoValue
        /\ cacheOp = NoValue
        /\ chat = NoValue

NextRace ==
    \/ \E t \in Slots : TextResponse(t, TRUE, <<>>)
    \/ \E t \in Slots : AIResponse(t, "ok", "ok")
    \/ \E t \in Slots : UpdateResponse(t, "applied")
    \/ \E t \in Slots, slow \in BOOLEAN : QueryResponse(t, "row", slow)
    \/ \E i \in 1..Len(BIBLE_BOOKS) : HandleSelectChapter(BIBLE_BOOKS[i].name, 1)
    \/ HandlerUpdateResponse("applied")
    \/ \E slow \in BOOLEAN : HandlerQueryResponse("row", slow)

SpecRace == InitRace /\ [][NextRace]_vars

\* The mapping in the cached_content column of the profile row
PersistedCache(r) ==
    IF r["cached_content"].t = "object" THEN r["cached_content"].v ELSE <<>>

\* C18: when the user has navigated to another chapter before a fetch
\* completed and every fetch succeeds, a completion writes its own key only:
\* every bundle the persisted cache holds stays in it unchanged, so that after
\* the completions, in whatever order, the cache holds the bundles of both
\* chapters.
C18_StaleCompletionKeepsOtherBundles ==
    [][ \A k \in DOMAIN PersistedCache(row) :
            /\ k \in DOMAIN PersistedCache(row')
            /\ PersistedCache(row')[k] = PersistedCache(row)[k] ]_vars

\* A run for the chapter the user data selects is in flight
FetchingSelected ==
    \E t \in Slots : /\ tasks[t].pc \in {"text", "ai", "update", "query"}
                     /\ tasks[t].key = cacheKey(currentUser.v)

\* C25: the verses shown belong to the currently selected chapter, and the
\* loading indicator stays on while the fetch of that chapter is running,
\* also when the fetch of a chapter the user has left completes.
C25_ViewBelongsToTheSelectedChapter ==
    /\ \A i \in 1..Len(view.verses.v) :
         /\ view.verses.v[i].book_name = currentChapter(currentUser.v).v.book.v
         /\ view.verses.v[i].chapter = currentChapter(currentUser.v).v.chapter.v
    /\ FetchingSelected => view.isChapterLoading

----------------------------------------------------------------------------
(* Specification SpecProfile: one call of getUserData for the signed-in user,
   the backend answering each query in any way. *)

InitProfile ==
    /\ row \in WireRows
    /\ profileCall = [call |-> NewCall, answers |-> <<>>, value |-> NoValue]
    /\ decoded = NoValue
    /\ lastData = NoValue
    /\ lastPatch = NoValue
    /\ rowBefore = NoValue
    /\ localStorage = <<>>
    /\ parseLog = <<>>
    /\ corruptCalls = 0
    /\ keyIn = NoValue
    /\ keyOut = NoValue
    /\ currentUser = Null
    /\ view = NoValue
    /\ cacheResetBanner = FALSE
    /\ tasks = <<>>
    /\ userOp = NoValue
    /\ auth = NoValue
    /\ cacheOp = NoValue
    /\ chat = NoValue

\* One pass through the attempt loop of getUserData: the query, its answer and
\* what follows it up to the next query or the end of the call
GetUserDataPass(answer, slow) ==
    LET out == getUserDataAttempt(row, profileCall.call.attempt, answer, slow)
    IN  /\ profileCall.call.result = "pending"
        /\ profileCall' = [ call    |-> CallAfter(profileCall.call, out),
                            answers |-> Append(profileCall.answers, [answer |-> answer, slow |-> slow]),
                            value   |-> IF out.kind = "return" THEN out.value ELSE NoValue ]
        /\ UNCHANGED <<codecVars, parseVars, keyVars>>
        /\ UNCHANGED <<currentUser, view, cacheResetBanner, tasks, userOp, auth, cacheOp, chat>>

NextProfile == \E answer \in QueryAnswers, slow \in BOOLEAN : GetUserDataPass(answer, slow)

SpecProfile == InitProfile /\ [][NextProfile]_vars

\* C10: against a backend that answers every query promptly with "row not
\* found" (PGRST116), a finished getUserData call has made exactly 3 queries,
\* has waited 500ms and then 1000ms between them, and has returned null
\* without raising an exception.
C10_ThreeAttemptsThenNull ==
    ( /\ profileCall.call.result # "pending"
      /\ \A i \in 1..Len(profileCall.answers) :
            profileCall.answers[i] = [answer |-> NotFoundCode, slow |-> FALSE] )
    => /\ profileCall.call.queries = MaxAttempts
       /\ profileCall.call.delays = <<BackoffUnit, 2 * BackoffUnit>>
       /\ profileCall.call.result = "null"
       /\ profileCall.value = Null

\* The call has ended: it returned or raised an exception
CallEnded == profileCall.call.result # "pending"

\* C11: a getUserData call in which the query of some attempt outlasted the
\* 2000ms timeout has ended at that attempt with no profile (null), also when
\* the slow query came back with the row.
C11_TimedOutAttemptFails ==
    \A i \in 1..Len(profileCall.answers) :
        (CallEnded /\ profileCall.answers[i].slow)
            => /\ i = Len(profileCall.answers)
               /\ profileCall.call.result = "null"
               /\ profileCall.value = Null

\* The error codes other than "row not found" the backend may answer with
HardErrorCodes == QueryAnswers \ {"row", NotFoundCode, "threw"}

\* C12: a getUserData call in which a query was answered with an error other
\* than PGRST116 has ended at that attempt, without a delay after it, and has
\* returned null.
C12_HardErrorEndsTheCallWithNull ==
    \A i \in 1..Len(profileCall.answers) :
        (CallEnded /\ profileCall.answers[i].answer \in HardErrorCodes)
            => /\ i = Len(profileCall.answers)
               /\ Len(profileCall.call.delays) = i - 1
               /\ profileCall.call.result = "null"
               /\ profileCall.value = Null

----------------------------------------------------------------------------
(* authService.ts: createProfileForUser *)

MinUsernameLen == 3   \* username.trim().length >= 3
IdPrefixLen    == 8   \* id.substring(0, 8)

\* The characters of the user ids
IdChars(id) == CASE id = UserId -> <<"u", "1">> [] id = OtherId -> <<"u", "2">>

RECURSIVE TrimEnd(_)
TrimEnd(chars) ==
    IF chars # <<>> /\ chars[Len(chars)] \in Whitespace
    THEN TrimEnd(SubSeq(chars, 1, Len(chars) - 1)) ELSE chars

\* username.trim()
Trim(chars) == TrimEnd(TrimLeft(chars))

\* s.substring(0, n)
Prefix(chars, n) == SubSeq(chars, 1, IF Len(chars) < n THEN Len(chars) ELSE n)

\* baseUsername, for a username that is undefined or a string
BaseUsername(id, username) ==
    IF username # Undefined /\ Len(username.v) > 0 /\ Len(Trim(username.v)) >= MinUsernameLen
    THEN Trim(username.v)
    ELSE <<"u", "s", "e", "r", "_">> \o Prefix(IdChars(id), IdPrefixLen)

\* Math.random().toString(36).substring(2, 6): up to four characters
Suffixes == { <<"k", "3", "f", "9">>, <<"7">> }

\* `${baseUsername}_${...}`
FallbackUsername(base, suffix) == base \o <<"_">> \o suffix

\* profileToInsert with the given username
ProfileToInsert(id, name) ==
    [ FreshRow EXCEPT !["id"] = Str(id), !["username"] = Raw(name) ]

\* How the backend may answer an insert: the created row; a 23505 error whose
\* message names profiles_username_key; another 23505 error (the row of this id
\* exists already); any other error
InsertAnswers == {"created", "username_taken", "duplicate", "failed"}

UniqueViolation(answer) == answer \in {"username_taken", "duplicate"}

\* A mutated retry condition that does not look at the constraint named in
\* the error message.
RetriesWithFallbackOnAnyConflict(answer) == UniqueViolation(answer)

\* error && error.code === '23505' && error.message.includes('profiles_username_key')
RetriesWithFallback(answer) == answer = "username_taken"

\* What createProfileForUser does with the final { data, error }: return the
\* decoded row, return getUserData(id), or return null
AfterInserts(answer) ==
    CASE UniqueViolation(answer) -> "getUserData"
      [] answer = "failed"       -> "null"
      [] OTHER                   -> "profile"

----------------------------------------------------------------------------
(* App.tsx: handleAuthUser, called by checkSession for a session with a user *)

\* The backend holds no profile row for the user
NoRow == [t |-> "absent"]

RECURSIVE BeforeAt(_)
\* email.split('@')[0]
BeforeAt(chars) ==
    IF chars = <<>> \/ Head(chars) = "@" THEN <<>> ELSE <<Head(chars)>> \o BeforeAt(Tail(chars))

\* user.email?.split('@')[0] || undefined
EmailName(email) ==
    IF email = Undefined \/ BeforeAt(email.v) = <<>> THEN Undefined ELSE Raw(BeforeAt(email.v))

Emails == { Undefined, Raw(<<"@", "x">>), Raw(<<"a", "l", "@", "x">>),
            Raw(<<"a", "n", "n", "@", "x">>) }

CreateFailedMessage == "Failed to create your profile. Please try again or contact support."
LoginErrorMessage   == "An error occurred during login. Please try again."

\* App state before the session check, and handleAuthUser awaiting getUserData
AuthStarted(email) ==
    [ pc |-> "getUserData", email |-> email, call |-> NewCall,
      fetches |-> <<>>,          \* the answers to the profile queries
      inserts |-> <<>>,          \* the usernames of the insert requests
      insertAnswers |-> <<>>,    \* the answers to the insert requests
      created |-> "none",        \* what createProfileForUser returned
      appView |-> "home", isLoadingSession |-> TRUE,
      profileRecoveryError |-> "none", loggedOut |-> FALSE ]

\* setCurrentUser(profile); setView('study'); setIsLoadingSession(false)
SignedIn(a, value) ==
    /\ currentUser' = value
    /\ auth' = [a EXCEPT !.pc = "done", !.appView = "study", !.isLoadingSession = FALSE]

\* if (!profile) { setProfileRecoveryError(...); await logoutUser(); return; }
\* and the finally block of checkSession
CreateFailed(a) ==
    /\ auth' = [a EXCEPT !.pc = "done", !.profileRecoveryError = CreateFailedMessage,
                         !.loggedOut = TRUE, !.isLoadingSession = FALSE]
    /\ UNCHANGED currentUser

\* The catch block of handleAuthUser
LoginFailed(a) ==
    /\ auth' = [a EXCEPT !.pc = "done", !.profileRecoveryError = LoginErrorMessage,
                         !.loggedOut = TRUE, !.isLoadingSession = FALSE]
    /\ UNCHANGED currentUser

\* The backend answers a query for the row as the table stands
QueryAnswerPossible(answer) ==
    /\ answer = "row" => row # NoRow
    /\ answer = NotFoundCode => row = NoRow

\* The backend answers an insert as the table stands
InsertAnswerPossible(answer) ==
    /\ answer = "created" => row = NoRow
    /\ answer = "duplicate" => row # NoRow

AuthFrame ==
    UNCHANGED <<passiveVars, parseVars, keyVars, view, cacheResetBanner, tasks, userOp,
                profileCall, cacheOp, chat>>

\* The query of `await authService.getUserData(user.id)` has been answered;
\* without a profile handleAuthUser calls createProfileForUser, which sends
\* its first insert
AuthProfileResponse(answer, slow) ==
    LET out  == getUserDataAttempt(row, auth.call.attempt, answer, slow)
        a    == [auth EXCEPT !.call = CallAfter(auth.call, out),
                             !.fetches = Append(@, [answer |-> answer, slow |-> slow])]
        base == BaseUsername(UserId, EmailName(auth.email))
    IN  /\ auth.pc = "getUserData"
        /\ QueryAnswerPossible(answer)
        /\ CASE out.kind = "retry" -> auth' = a /\ UNCHANGED currentUser
             [] out.kind = "throw" -> LoginFailed(a)
             [] out.kind = "return" /\ Truthy(out.value) -> SignedIn(a, out.value)
             [] OTHER -> /\ auth' = [a EXCEPT !.pc = "insert", !.inserts = <<base>>]
                         /\ UNCHANGED currentUser
        /\ UNCHANGED row
        /\ AuthFrame

\* createProfileForUser after the answer to its last insert
InsertsEnded(a, inserted, answer) ==
    CASE AfterInserts(answer) = "getUserData" ->
            /\ auth' = [a EXCEPT !.pc = "refetch", !.call = NewCall]
            /\ UNCHANGED <<row, currentUser>>
      [] AfterInserts(answer) = "null" ->
            /\ CreateFailed([a EXCEPT !.created = "null"])
            /\ UNCHANGED row
      [] OTHER ->
            /\ row' = inserted
            /\ SignedIn([a EXCEPT !.created = "profile"], Obj(fromSupabase(inserted)))

\* The first insert has been answered
InsertResponse(answer, suffix) ==
    LET a == [auth EXCEPT !.insertAnswers = Append(@, answer)]
    IN  /\ auth.pc = "insert"
        /\ InsertAnswerPossible(answer)
        /\ IF RetriesWithFallback(answer)
           THEN /\ auth' = [a EXCEPT !.pc = "retryInsert",
                                     !.inserts = Append(@, FallbackUsername(auth.inserts[1], suffix))]
                /\ UNCHANGED <<row, currentUser>>
           ELSE InsertsEnded(a, ProfileToInsert(UserId, auth.inserts[1]), answer)
        /\ AuthFrame

\* The insert with the fallback username has been answered
RetryInsertResponse(answer) ==
    /\ auth.pc = "retryInsert"
    /\ InsertAnswerPossible(answer)
    /\ InsertsEnded([auth EXCEPT !.insertAnswers = Append(@, answer)],
                    ProfileToInsert(UserId, auth.inserts[2]), answer)
    /\ AuthFrame

\* The query of `return getUserData(id)` in createProfileForUser has been answered
RefetchResponse(answer, slow) ==
    LET out == getUserDataAttempt(row, auth.call.attempt, answer, slow)
        a   == [auth EXCEPT !.call = CallAfter(auth.call, out),
                            !.fetches = Append(@, [answer |-> answer, slow |-> slow])]
    IN  /\ auth.pc = "refetch"
        /\ QueryAnswerPossible(answer)
        /\ CASE out.kind = "retry" -> auth' = a /\ UNCHANGED currentUser
             [] out.kind = "throw" -> LoginFailed([a EXCEPT !.created = "threw"])
             [] out.kind = "return" /\ Truthy(out.value) ->
                   SignedIn([a EXCEPT !.created = "profile"], out.value)
             [] OTHER -> CreateFailed([a EXCEPT !.created = "null"])
        /\ UNCHANGED row
        /\ AuthFrame

\* The database trigger of registerUser creates the profile row
TriggerCreatesProfile ==
    /\ auth.pc # "done"
    /\ row = NoRow
    /\ row' = FreshRow
    /\ UNCHANGED <<auth, currentUser>>
    /\ AuthFrame

InitAuth ==
    /\ row \in {NoRow, FreshRow}
    /\ auth \in {AuthStarted(e) : e \in Emails}
    /\ currentUser = Null
    /\ decoded = NoValue
    /\ lastData = NoValue
    /\ lastPatch = NoValue
    /\ rowBefore = NoValue
    /\ localStorage = <<>>
    /\ parseLog = <<>>
    /\ corruptCalls = 0
    /\ keyIn = NoValue
    /\ keyOut = NoValue
    /\ view = NoValue
    /\ cacheResetBanner = FALSE
    /\ tasks = <<>>
    /\ userOp = NoValue
    /\ profileCall = NoValue
    /\ cacheOp = NoValue
    /\ chat = NoValue

NextAuth ==
    \/ \E answer \in QueryAnswers, slow \in BOOLEAN : AuthProfileResponse(answer, slow)
    \/ \E answer \in InsertAnswers, suffix \in Suffixes : InsertResponse(answer, suffix)
    \/ \E answer \in InsertAnswers : RetryInsertResponse(answer)
    \/ \E answer \in QueryAnswers, slow \in BOOLEAN : RefetchResponse(answer, slow)
    \/ TriggerCreatesProfile

SpecAuth == InitAuth /\ [][NextAuth]_vars

----------------------------------------------------------------------------
(* Claims about sign-in and profile creation (SpecAuth) *)

\* The first profile fetch of handleAuthUser ended on a "row not found" answer
FirstFetchFoundNoRow ==
    /\ auth.pc # "getUserData"
    /\ auth.fetches[1].answer = NotFoundCode

\* The login-error banner of the catch block is shown, or the user was logged
\* out, before createProfileForUser was ever called
FailedWithoutCreation ==
    /\ auth.inserts = <<>>
    /\ auth.profileRecoveryError # "none" \/ auth.loggedOut

\* C13: when the profile fetch of handleAuthUser ends without finding a row,
\* createProfileForUser is called and, if it returns a profile, the run ends
\* with the user signed in (currentUser set, view 'study'); the not-found
\* outcome itself never produces the login-error banner or a logout.
C13_NotFoundMeansCreateProfile ==
    FirstFetchFoundNoRow
        => /\ Len(auth.inserts) >= 1
           /\ ~FailedWithoutCreation
           /\ (auth.pc = "done" /\ auth.created = "profile")
                 => (currentUser # Null /\ auth.appView = "study")

\* The insert with the fallback username was answered with an error
RetryFailed ==
    /\ Len(auth.insertAnswers) = 2
    /\ auth.insertAnswers[2] # "created"

\* C20 as stated: a username conflict of the first insert is retried exactly
\* once with a suffixed username, one call issues at most two inserts, and a
\* failed retry is surfaced to the caller as a failure.
C20_ConflictRetriedOnceElseSurfaced ==
    /\ Len(auth.inserts) <= 2
    /\ (Len(auth.insertAnswers) >= 1 /\ auth.insertAnswers[1] = "username_taken")
          => Len(auth.inserts) = 2
    /\ (auth.pc = "done" /\ RetryFailed) => auth.created \in {"null", "threw"}

\* C20: a conflict on the username constraint of the first insert is retried
\* exactly once with the username suffixed by "_" and a random suffix, and
\* nothing else is retried; one call issues at most two inserts; a retry that
\* fails with another error than a uniqueness conflict makes
\* createProfileForUser return null, and one that fails with a uniqueness
\* conflict makes it return what getUserData returns.
C20_UsernameConflictRetriedOnce ==
    /\ Len(auth.inserts) <= 2
    /\ Len(auth.insertAnswers) >= 1
          => (Len(auth.inserts) = 2 <=> auth.insertAnswers[1] = "username_taken")
    /\ Len(auth.inserts) = 2
          => \E suffix \in Suffixes :
                auth.inserts[2] = auth.inserts[1] \o <<"_">> \o suffix
    /\ (auth.pc = "done" /\ RetryFailed)
          => IF auth.insertAnswers[2] = "failed"
             THEN auth.created = "null" /\ Len(auth.fetches) = 1
             ELSE /\ Len(auth.fetches) = 2
                  /\ auth.created = auth.call.result

\* The retry was made and failed with an ordinary error: null was returned
C20_Witness ==
    /\ auth.pc = "done"
    /\ auth.insertAnswers = <<"username_taken", "failed">>
    /\ auth.created = "null"
    /\ auth.profileRecoveryError = CreateFailedMessage

----------------------------------------------------------------------------
(* Specification SpecCache: the cache lookup and the cache write of
   fetchAllChapterData on their own, for a signed-in user whose snapshot is
   the profile row as it stands, and any local-storage mirror. *)

\* The chapters whose bundles the profile may hold
CacheChapters == { READING_PLAN[i] : i \in 1..Len(READING_PLAN) }

KeyOf(chapter) == getCacheKey(BookChars(chapter.v.book.v), chapter.v.chapter.v, "web")

\* A profile row whose cached_content holds the bundles of the given chapters
RowCaching(chapters) ==
    [ FreshRow EXCEPT !["cached_content"] =
        Obj([ k \in {KeyOf(c) : c \in chapters} |->
                EarlierBundle(CHOOSE c \in chapters : KeyOf(c) = k) ]) ]

\* What local storage may hold under 'cachedContent': nothing, text that is
\* no JSON, or the JSON of an empty object, an empty array or a number
Mirrors ==
    { <<>> } \cup
    { [k \in {CacheStorageKey} |-> Raw(x)] :
        x \in { <<"[">>, <<"{", "}">>, <<"[", "]">>, <<"1">> } }

InitCache ==
    /\ row \in {RowCaching(cs) : cs \in SUBSET CacheChapters}
    /\ currentUser = Obj(fromSupabase(row))
    /\ localStorage \in Mirrors
    /\ cacheOp = [kind |-> "none"]
    /\ rowBefore = NoValue
    /\ decoded = NoValue
    /\ lastData = NoValue
    /\ lastPatch = NoValue
    /\ parseLog = <<>>
    /\ corruptCalls = 0
    /\ keyIn = NoValue
    /\ keyOut = NoValue
    /\ view = NoValue
    /\ cacheResetBanner = FALSE
    /\ tasks = <<>>
    /\ userOp = NoValue
    /\ profileCall = NoValue
    /\ auth = NoValue
    /\ chat = NoValue

CacheFrame ==
    UNCHANGED <<decoded, lastData, lastPatch, parseLog, corruptCalls, keyVars, view, tasks,
                userOp, profileCall, auth, chat>>

\* The render and the lookup of lines 49-53 and 101: safeCachedContent?.[cacheKey]
CacheLookup(chapter) ==
    LET sc == safeCachedContent(localStorage, currentUser.v)
    IN  /\ cacheOp' = [ kind |-> "lookup", key |-> KeyOf(chapter),
                        mirror |-> GetItem(localStorage, CacheStorageKey),
                        held |-> Lookup(currentUser.v.cachedContent, KeyOf(chapter)),
                        result |-> Lookup(sc.value, KeyOf(chapter)) ]
        /\ localStorage' = sc.store
        /\ cacheResetBanner' = (cacheResetBanner \/ sc.corrupted)
        /\ UNCHANGED <<row, rowBefore, currentUser>>
        /\ CacheFrame

\* The render, a missed lookup and the write of lines 125-135, applied by the
\* backend and read back into the snapshot
CacheWrite(chapter) ==
    LET sc      == safeCachedContent(localStorage, currentUser.v)
        payload == [ cachedContent |-> SpreadWith(sc.value, KeyOf(chapter), EarlierBundle(chapter)) ]
    IN  /\ ~Truthy(Lookup(sc.value, KeyOf(chapter)))
        /\ cacheOp' = [ kind |-> "write", key |-> KeyOf(chapter),
                        mirror |-> GetItem(localStorage, CacheStorageKey),
                        held |-> Lookup(currentUser.v.cachedContent, KeyOf(chapter)),
                        result |-> Undefined ]
        /\ rowBefore' = row
        /\ row' = ApplyUpdate(row, currentUser.v.id.v, UpdateBody(payload))
        /\ currentUser' = Obj(fromSupabase(row'))
        /\ localStorage' = sc.store
        /\ cacheResetBanner' = (cacheResetBanner \/ sc.corrupted)
        /\ CacheFrame

NextCache ==
    \/ \E chapter \in CacheChapters : CacheLookup(chapter)
    \/ \E chapter \in CacheChapters : CacheWrite(chapter)

SpecCache == InitCache /\ [][NextCache]_vars

\* C14: a cache write for key k persists the mapping the profile held before
\* the write with only k added or overwritten: every other key it held is
\* still there with the same bundle.
C14_WriteKeepsTheOtherKeys ==
    cacheOp.kind = "write"
        => \A k \in DOMAIN rowBefore["cached_content"].v \ {cacheOp.key} :
              /\ k \in DOMAIN row["cached_content"].v
              /\ row["cached_content"].v[k] = rowBefore["cached_content"].v[k]

\* C15: a lookup for key k gives the mirror's entry when the mirror holds k and
\* otherwise the entry of the UserData snapshot (no mirror here holds an
\* entry): a key the profile holds is never a miss because a mirror exists.
C15_LookupFallsBackToTheProfile ==
    cacheOp.kind = "lookup" => cacheOp.result = cacheOp.held

----------------------------------------------------------------------------
(* ChatPanel.tsx: the chat about the chapter shown.  chat holds the state of
   the mounted panel (messages, input, isLoading), the chat instance of the
   service module, and the position of the handleSend in flight: its local
   variable text, the fragments received from the stream, and whether
   setupChat has run since it began. *)

MaxSends == 2       \* messages the user sends
MaxFragments == 3   \* fragments of one streamed reply

ChatInputs == { <<>>, <<" ">>, <<"h", "i">>, <<" ", "w", "h", "y", " ">> }
Fragments == { <<"a">>, <<"b">> }

ErrorReply == <<"Sorry,", "an", "error", "occurred.">>

RECURSIVE Concatenation(_)
Concatenation(fragments) ==
    IF fragments = <<>> THEN <<>>
    ELSE Head(fragments) \o Concatenation(Tail(fragments))

\* A mutated update that rewrites the first message of the list.
UpdateFirst(prev, content) ==
    [ index \in 1..Len(prev) |->
        IF index = 1 THEN [prev[index] EXCEPT !.content = content] ELSE prev[index] ]

\* prev.map((msg, index) => index === prev.length - 1 ? { ...msg, content } : msg)
UpdateLast(prev, content) ==
    [ index \in 1..Len(prev) |->
        IF index = Len(prev) THEN [prev[index] EXCEPT !.content = content] ELSE prev[index] ]

ChatFrame ==
    UNCHANGED <<row, decoded, lastData, lastPatch, rowBefore, localStorage, parseLog,
                corruptCalls, keyVars, currentUser, view, cacheResetBanner, tasks, userOp,
                profileCall, auth, cacheOp>>

\* onChange of the input field, which is disabled while isLoading
SetInput(value) ==
    /\ ~chat.isLoading
    /\ chat' = [chat EXCEPT !.input = value]
    /\ ChatFrame

\* handleSend up to its await of sendMessage(input)
HandleSend ==
    /\ ~(Trim(chat.input) = <<>> \/ chat.isLoading)
    /\ chat.sends < MaxSends
    /\ chat' = [chat EXCEPT
                  !.messages = chat.messages
                                 \o << [role |-> "user", content |-> chat.input],
                                       [role |-> "model", content |-> <<>>] >>,
                  !.input = <<>>,
                  !.isLoading = TRUE,
                  !.pc = "sendMessage",
                  !.text = <<>>,
                  !.fragments = <<>>,
                  !.reset = FALSE,
                  !.outcome = "none",
                  !.sends = chat.sends + 1]
    /\ ChatFrame

\* The catch block and the finally block of handleSend
CatchAndFinally(c) ==
    [c EXCEPT !.messages = UpdateLast(c.messages, ErrorReply), !.isLoading = FALSE,
              !.pc = "idle", !.outcome = "error"]

\* sendMessage(input) has settled: it throws without a chat instance, and
\* else sendMessageStream gives the stream or rejects
SendMessageSettles(rejected) ==
    /\ chat.pc = "sendMessage"
    /\ chat' = IF ~chat.chatInstance \/ rejected
               THEN CatchAndFinally(chat)
               ELSE [chat EXCEPT !.pc = "stream"]
    /\ ChatFrame

\* The stream has yielded a chunk
StreamYields(fragment) ==
    /\ chat.pc = "stream"
    /\ Len(chat.fragments) < MaxFragments
    /\ chat' = [chat EXCEPT !.text = chat.text \o fragment,
                            !.fragments = Append(chat.fragments, fragment),
                            !.messages = UpdateLast(chat.messages, chat.text \o fragment)]
    /\ ChatFrame

\* The stream has ended: the finally block
StreamEnds ==
    /\ chat.pc = "stream"
    /\ chat' = [chat EXCEPT !.isLoading = FALSE, !.pc = "idle", !.outcome = "ended"]
    /\ ChatFrame

\* The stream has raised an error
StreamFails ==
    /\ chat.pc = "stream"
    /\ chat' = CatchAndFinally(chat)
    /\ ChatFrame

\* The panel is rendered with another chapterIdentifier object: setupChat
SetupChat ==
    /\ chat' = [chat EXCEPT !.messages = <<>>, !.chatInstance = TRUE, !.reset = TRUE]
    /\ ChatFrame

----------------------------------------------------------------------------
(* Specification SpecChat: the chat panel after its mount, the user typing
   and sending, the service streaming or failing, and the chapter identifier
   changing at any time. *)

InitChat ==
    /\ chat = [ messages |-> <<>>, input |-> <<>>, isLoading |-> FALSE, chatInstance |-> TRUE,
                pc |-> "idle", text |-> <<>>, fragments |-> <<>>, reset |-> TRUE,
                outcome |-> "none", sends |-> 0 ]
    /\ row = NoValue
    /\ decoded = NoValue
    /\ lastData = NoValue
    /\ lastPatch = NoValue
    /\ rowBefore = NoValue
    /\ localStorage = <<>>
    /\ parseLog = <<>>
    /\ corruptCalls = 0
    /\ keyIn = NoValue
    /\ keyOut = NoValue
    /\ currentUser = Null
    /\ view = NoValue
    /\ cacheResetBanner = FALSE
    /\ tasks = <<>>
    /\ userOp = NoValue
    /\ profileCall = NoValue
    /\ auth = NoValue
    /\ cacheOp = NoValue

NextChat ==
    \/ \E value \in ChatInputs : SetInput(value)
    \/ HandleSend
    \/ \E rejected \in BOOLEAN : SendMessageSettles(rejected)
    \/ \E fragment \in Fragments : StreamYields(fragment)
    \/ StreamEnds
    \/ StreamFails
    \/ SetupChat

SpecChat == InitChat /\ [][NextChat]_vars

\* The last message of the list after the step is a model message with the
\* given content, and the messages before it are those before the step
SingleInProgressMessage(before, after, content) ==
    /\ Len(after) = Len(before) /\ Len(after) > 0
    /\ after[Len(after)] = [role |-> "model", content |-> content]
    /\ \A i \in 1..(Len(after) - 1) : after[i] = before[i]

\* What a step of a reply does to the message list and to isLoading
ReplyStep(c, d) ==
    /\ Len(d.fragments) = Len(c.fragments) + 1
         => SingleInProgressMessage(c.messages, d.messages, Concatenation(d.fragments))
    /\ (c.pc # "idle" /\ d.outcome = "error")
         => SingleInProgressMessage(c.messages, d.messages, ErrorReply)

\* Sending has ended with isLoading false
SendingEnds(c, d) == (c.pc # "idle" /\ d.pc = "idle") => ~d.isLoading

\* C19 as stated: after each fragment of a streamed reply the last message is
\* the in-progress model message holding the concatenation of the fragments
\* so far and no other message has changed; an error of the stream or of
\* sendMessage replaces its content by 'Sorry, an error occurred.'; sending
\* ends with isLoading false.
C19_ReplyIsTheConcatenation ==
    [][ ReplyStep(chat, chat') /\ SendingEnds(chat, chat') ]_vars

\* C19, amended: the same of a reply during which setupChat has not run
\* (the chapter identifier has not changed since the message was sent);
\* sending ends with isLoading false in every case.
C19_UninterruptedReplyIsTheConcatenation ==
    [][ /\ ~chat'.reset => ReplyStep(chat, chat')
        /\ SendingEnds(chat, chat') ]_vars

\* The reply to the second message has streamed in two fragments
C19_Witness ==
    /\ chat.pc = "stream" /\ ~chat.reset
    /\ Len(chat.fragments) = 2
    /\ Len(chat.messages) = 4
    /\ chat.messages[4] = [role |-> "model", content |-> Concatenation(chat.fragments)]
    /\ chat.isLoading

----------------------------------------------------------------------------
(* App.tsx: the session bootstrap.  auth holds the state of App (view,
   isLoadingSession, profileRecoveryError), the position and the didTimeout
   flag of checkSession and of the auth-state-change handler, the console log,
   and the number of auth events delivered; currentUser is App's currentUser. *)

MaxEvents == 2   \* auth events delivered to the onAuthStateChange handler

\* How handleAuthUser ends (lines 46-89): with a profile, with the profile
\* creation failed, or in its catch block
AuthOutcomes == {"profile", "createFailed", "loginFailed"}

BootStarted ==
    [ appView |-> "home", isLoadingSession |-> TRUE, profileRecoveryError |-> "none",
      check   |-> [pc |-> "getSession", didTimeout |-> FALSE],
      handler |-> [pc |-> "idle", didTimeout |-> FALSE],
      log |-> {}, events |-> 0 ]

\* What the end of handleAuthUser does to the state of App
HandleAuthUserEnds(a, user, outcome) ==
    CASE outcome = "profile" ->
            [ auth |-> [a EXCEPT !.appView = "study", !.isLoadingSession = FALSE],
              user |-> Obj(fromSupabase(FreshRow)) ]
      [] outcome = "createFailed" ->
            [ auth |-> [a EXCEPT !.profileRecoveryError = CreateFailedMessage],
              user |-> user ]
      [] OTHER ->
            [ auth |-> [a EXCEPT !.profileRecoveryError = LoginErrorMessage,
                                 !.isLoadingSession = FALSE],
              user |-> user ]

BootFrame ==
    UNCHANGED <<row, passiveVars, parseVars, keyVars, view, cacheResetBanner, tasks, userOp,
                profileCall, cacheOp, chat>>

\* checkSession: the 3000ms timer fires before getSession has answered
GetSessionTimeout ==
    /\ auth.check.pc = "getSession" /\ ~auth.check.didTimeout
    /\ auth' = [auth EXCEPT !.check.didTimeout = TRUE,
                            !.log = @ \cup {"warn: getSession appears stuck"}]
    /\ UNCHANGED currentUser
    /\ BootFrame

\* checkSession: getSession has answered (or thrown); with a session user
\* checkSession awaits handleAuthUser, else it sets the home view, and its
\* finally block clears the loading flag
GetSessionAnswers(answer) ==
    /\ auth.check.pc = "getSession"
    /\ auth' = IF answer = "user"
               THEN [auth EXCEPT !.check.pc = "handleAuthUser"]
               ELSE [auth EXCEPT !.check.pc = "done", !.appView = "home",
                                 !.isLoadingSession = FALSE]
    /\ UNCHANGED currentUser
    /\ BootFrame

\* checkSession: handleAuthUser has ended, and the finally block runs
CheckSessionEnds(outcome) ==
    LET e == HandleAuthUserEnds(auth, currentUser, outcome)
    IN  /\ auth.check.pc = "handleAuthUser"
        /\ auth' = [e.auth EXCEPT !.check.pc = "done", !.isLoadingSession = FALSE]
        /\ currentUser' = e.user
        /\ BootFrame

\* An auth event reaches the onAuthStateChange handler: with a session user
\* it arms the 4000ms timer and awaits handleAuthUser, else it resets App
AuthStateChange(hasUser) ==
    /\ auth.handler.pc # "handleAuthUser"
    /\ auth.events < MaxEvents
    /\ IF hasUser
       THEN /\ auth' = [auth EXCEPT !.handler = [pc |-> "handleAuthUser", didTimeout |-> FALSE],
                                    !.events = @ + 1]
            /\ UNCHANGED currentUser
       ELSE /\ auth' = [auth EXCEPT !.handler = [pc |-> "done", didTimeout |-> FALSE],
                                    !.events = @ + 1,
                                    !.appView = "home", !.isLoadingSession = FALSE]
            /\ currentUser' = Null
    /\ BootFrame

\* The 4000ms timer of the handler fires before handleAuthUser has ended
HandlerTimeout ==
    /\ auth.handler.pc = "handleAuthUser" /\ ~auth.handler.didTimeout
    /\ auth' = [auth EXCEPT !.handler.didTimeout = TRUE,
                            !.isLoadingSession = FALSE, !.appView = "home",
                            !.log = @ \cup {"error: handleAuthUser timeout"}]
    /\ currentUser' = Null
    /\ BootFrame

\* The handler's handleAuthUser has ended: if (!didTimeout) setIsLoadingSession(false)
HandlerEnds(outcome) ==
    LET e == HandleAuthUserEnds(auth, currentUser, outcome)
    IN  /\ auth.handler.pc = "handleAuthUser"
        /\ auth' = [e.auth EXCEPT !.handler.pc = "done",
                                  !.isLoadingSession =
                                      IF auth.handler.didTimeout THEN @ ELSE FALSE]
        /\ currentUser' = e.user
        /\ BootFrame

InitBoot ==
    /\ auth = BootStarted
    /\ currentUser = Null
    /\ row = FreshRow
    /\ decoded = NoValue
    /\ lastData = NoValue
    /\ lastPatch = NoValue
    /\ rowBefore = NoValue
    /\ localStorage = <<>>
    /\ parseLog = <<>>
    /\ corruptCalls = 0
    /\ keyIn = NoValue
    /\ keyOut = NoValue
    /\ view = NoValue
    /\ cacheResetBanner = FALSE
    /\ tasks = <<>>
    /\ userOp = NoValue
    /\ profileCall = NoValue
    /\ cacheOp = NoValue
    /\ chat = NoValue

NextBoot ==
    \/ GetSessionTimeout
    \/ \E answer \in {"user", "none", "threw"} : GetSessionAnswers(answer)
    \/ \E outcome \in AuthOutcomes : CheckSessionEnds(outcome)
    \/ \E hasUser \in BOOLEAN : AuthStateChange(hasUser)
    \/ HandlerTimeout
    \/ \E outcome \in AuthOutcomes : HandlerEnds(outcome)

SpecBoot == InitBoot /\ [][NextBoot]_vars

\* App shows the unauthenticated state
Unauthenticated(a, user) ==
    ~a.isLoadingSession /\ user = Null /\ a.appView = "home"

\* C22: when a client-side timeout of the session bootstrap fires (the 3000ms
\* timer of checkSession, the 4000ms timer of the auth-state-change handler),
\* the app proceeds as unauthenticated (loading flag cleared, no current user,
\* home view) and logs a message, and the call it waited for stays pending.
C22_TimeoutProceedsUnauthenticated ==
    [][ /\ (~auth.check.didTimeout /\ auth'.check.didTimeout)
            => /\ Unauthenticated(auth', currentUser')
               /\ auth'.log # auth.log
               /\ auth'.check.pc = auth.check.pc
        /\ (~auth.handler.didTimeout /\ auth'.handler.didTimeout)
            => /\ Unauthenticated(auth', currentUser')
               /\ auth'.log # auth.log
               /\ auth'.handler.pc = auth.handler.pc ]_vars

\* C27: the completion of a handleAuthUser whose 4000ms timeout has already
\* reset App leaves currentUser, the view and the loading flag as they are.
C27_LateCompletionChangesNothing ==
    [][ (auth.handler.pc = "handleAuthUser" /\ auth.handler.didTimeout
           /\ auth'.handler.pc = "done")
            => /\ currentUser' = currentUser
               /\ auth'.appView = auth.appView
               /\ auth'.isLoadingSession = auth.isLoadingSession ]_vars

----------------------------------------------------------------------------
(* StudyApp.tsx / Sidebar.tsx: chapter navigation.  Each handler is given the
   user data u of the render it was created in and yields the sequence of
   partial updates it passes to onUpdateUserData, in order. *)

safeCompletedChapters(u) ==
    IF IsArray(u.completedChapters) THEN u.completedChapters.v ELSE <<>>

\* `${book.replace(/\s/g, '_')}-${chapter}`
ChapterKey(book, chapter) ==
    ReplaceWhitespace(BookChars(book)) \o <<"-">> \o NumberToString(chapter)

chapterIdentifierKey(u) ==
    IF Truthy(currentChapter(u))
    THEN ChapterKey(currentChapter(u).v.book.v, currentChapter(u).v.chapter.v)
    ELSE <<>>

Includes(list, x) == \E i \in 1..Len(list) : list[i] = x

\* safeBibleBooks.findIndex(b => b.name === name), counted from 1; 0 for -1
FindBookIndex(name) ==
    IF \E i \in 1..Len(BIBLE_BOOKS) : BIBLE_BOOKS[i].name = name
    THEN CHOOSE i \in 1..Len(BIBLE_BOOKS) :
           /\ BIBLE_BOOKS[i].name = name
           /\ \A j \in 1..(i - 1) : BIBLE_BOOKS[j].name # name
    ELSE 0

markChapterComplete(u) ==
    IF chapterIdentifierKey(u) # <<>>
         /\ ~Includes(safeCompletedChapters(u), chapterIdentifierKey(u))
    THEN << [completedChapters |->
               Arr(Append(safeCompletedChapters(u), chapterIdentifierKey(u)))] >>
    ELSE << >>

SelectionUpdate(book, chapter) == << [userSelectedChapter |-> ChapterRef(book, chapter)] >>

\* A mutated handler that also advances from the last index of the plan.
handleNextChapterPastTheEnd(u) ==
    markChapterComplete(u) \o
    ( IF safeStudyMode(u) = Str(READ_THROUGH)
      THEN << [readThroughIndex |-> Num(safeReadThroughIndex(u).v + 1)] >>
      ELSE << >> )

handleNextChapter(u) ==
    markChapterComplete(u) \o
    ( IF safeStudyMode(u) = Str(READ_THROUGH)
      THEN IF safeReadThroughIndex(u).v < Len(READING_PLAN) - 1
           THEN << [readThroughIndex |-> Num(safeReadThroughIndex(u).v + 1)] >>
           ELSE << >>
      ELSE IF Truthy(currentChapter(u))
      THEN LET cc == currentChapter(u).v
               i  == FindBookIndex(cc.book.v)
           IN  IF i = 0 THEN << >>
               ELSE IF cc.chapter.v < BIBLE_BOOKS[i].chapters
               THEN SelectionUpdate(cc.book.v, cc.chapter.v + 1)
               ELSE IF i < Len(BIBLE_BOOKS)
               THEN SelectionUpdate(BIBLE_BOOKS[i + 1].name, 1)
               ELSE << >>
      ELSE << >> )

\* A mutated handler that goes to chapter 1 of the preceding book.
handlePreviousChapterToFirst(u) ==
    IF safeStudyMode(u) # Str(READ_THROUGH) /\ Truthy(currentChapter(u))
    THEN LET cc == currentChapter(u).v
             i  == FindBookIndex(cc.book.v)
         IN  IF i = 0 THEN << >>
             ELSE IF cc.chapter.v > 1
             THEN SelectionUpdate(cc.book.v, cc.chapter.v - 1)
             ELSE IF i > 1 THEN SelectionUpdate(BIBLE_BOOKS[i - 1].name, 1)
             ELSE << >>
    ELSE << >>

handlePreviousChapter(u) ==
    IF safeStudyMode(u) = Str(READ_THROUGH)
    THEN IF safeReadThroughIndex(u).v > 0
         THEN << [readThroughIndex |-> Num(safeReadThroughIndex(u).v - 1)] >>
         ELSE << >>
    ELSE IF Truthy(currentChapter(u))
    THEN LET cc == currentChapter(u).v
             i  == FindBookIndex(cc.book.v)
         IN  IF i = 0 THEN << >>
             ELSE IF cc.chapter.v > 1
             THEN SelectionUpdate(cc.book.v, cc.chapter.v - 1)
             ELSE IF i > 1
             THEN SelectionUpdate(BIBLE_BOOKS[i - 1].name, BIBLE_BOOKS[i - 1].chapters)
             ELSE << >>
    ELSE << >>

\* safeBibleBooks.flatMap(book => Array.from({ length: book.chapters }, ...)):
\* the keys, each with the table entry it was built from
RECURSIVE AllChaptersFrom(_)
AllChaptersFrom(i) ==
    IF i > Len(BIBLE_BOOKS) THEN << >>
    ELSE [ n \in 1..BIBLE_BOOKS[i].chapters |->
             [ book |-> BIBLE_BOOKS[i].name, chapter |-> n,
               key |-> ChapterKey(BIBLE_BOOKS[i].name, n) ] ]
         \o AllChaptersFrom(i + 1)

allChapters == AllChaptersFrom(1)

\* allChapters.filter(ch => !safeCompletedChapters.includes(ch))
RECURSIVE Unread(_, _)
Unread(chapters, completed) ==
    IF chapters = << >> THEN << >>
    ELSE (IF Includes(completed, Head(chapters).key) THEN << >> ELSE << Head(chapters) >>)
         \o Unread(Tail(chapters), completed)

\* parts = key.split('-'); chapterStr = parts.pop(); parts.join('-')
LastDash(chars) ==
    IF \E i \in 1..Len(chars) : chars[i] = "-"
    THEN CHOOSE i \in 1..Len(chars) :
           chars[i] = "-" /\ \A j \in (i + 1)..Len(chars) : chars[j] # "-"
    ELSE 0

\* bookNameWithUnderscores.replace(/_/g, ' ')
ReplaceUnderscores(chars) ==
    [ i \in 1..Len(chars) |-> IF chars[i] = "_" THEN " " ELSE chars[i] ]

\* The book name with the given characters ("?" stands for every string
\* that is no name of the table)
BookNamed(chars) ==
    IF \E i \in 1..Len(BIBLE_BOOKS) : BookChars(BIBLE_BOOKS[i].name) = chars
    THEN (CHOOSE b \in {BIBLE_BOOKS[i] : i \in 1..Len(BIBLE_BOOKS)} : BookChars(b.name) = chars).name
    ELSE "?"

\* parseInt(chapterStr, 10): the value of the leading digits (0 stands for NaN,
\* which no chapter key yields)
RECURSIVE ParseInt(_, _)
ParseInt(chars, acc) ==
    IF chars # << >> /\ \E d \in 1..10 : DigitChar[d] = Head(chars)
    THEN ParseInt(Tail(chars), 10 * acc + (CHOOSE d \in 1..10 : DigitChar[d] = Head(chars)) - 1)
    ELSE acc

\* The chapter reference handleRandomChapter parses out of a key
ParseChapterKey(key) ==
    [ book    |-> BookNamed(ReplaceUnderscores(SubSeq(key, 1, LastDash(key) - 1))),
      chapter |-> ParseInt(SubSeq(key, LastDash(key) + 1, Len(key)), 0) ]

\* The entry handleRandomChapter picks: Math.floor(Math.random() * length) is
\* random, an index of the list it is taken from
RandomPick(u, random) ==
    LET unread == Unread(allChapters, safeCompletedChapters(u))
        from   == IF Len(unread) > 0 THEN unread ELSE allChapters
    IN  from[(random % Len(from)) + 1]

\* A mutated handler that picks among all the chapters.
handleRandomChapterAmongAll(u, random) ==
    LET picked == ParseChapterKey(allChapters[(random % Len(allChapters)) + 1].key)
    IN  SelectionUpdate(picked.book, picked.chapter)

handleRandomChapter(u, random) ==
    LET unread == Unread(allChapters, safeCompletedChapters(u))
        picked == ParseChapterKey(RandomPick(u, random).key)
    IN  (IF Len(unread) > 0 THEN << >> ELSE << [completedChapters |-> EmptyArr] >>)
        \o SelectionUpdate(picked.book, picked.chapter)

\* A mutated chapter grid that starts at chapter 0.
ChapterGridFromZero(selectedBook) ==
    IF FindBookIndex(selectedBook) = 0 THEN {}
    ELSE { <<selectedBook, chapter - 1>> :
             chapter \in 1..BIBLE_BOOKS[FindBookIndex(selectedBook)].chapters }

\* Sidebar renderChapterList: the buttons of the chapter grid, each calling
\* onSelectChapter(bookData.name, chapter)
ChapterGrid(selectedBook) ==
    IF FindBookIndex(selectedBook) = 0 THEN {}
    ELSE { <<selectedBook, chapter>> :
             chapter \in 1..BIBLE_BOOKS[FindBookIndex(selectedBook)].chapters }

----------------------------------------------------------------------------
(* Specification SpecNav: the user navigating with the chapter grid and the
   next, previous and random buttons, one handler at a time; the backend
   applies every update and answers every profile query with the row.
   userOp records the last handler, the one before it, the user data it
   started from and the entry a random pick took. *)

RECURSIVE ApplyAll(_, _)
ApplyAll(r, updates) ==
    IF updates = << >> THEN r
    ELSE ApplyAll(ApplyUpdate(r, UserId, UpdateBody(Head(updates))), Tail(updates))

NavFrame ==
    UNCHANGED <<passiveVars, localStorage, parseLog, corruptCalls, keyVars, view,
                cacheResetBanner, tasks, profileCall, auth, cacheOp, chat>>

\* A handler has run to its end
Navigate(op, updates, picked) ==
    /\ row' = ApplyAll(row, updates)
    /\ currentUser' = Obj(fromSupabase(row'))
    /\ userOp' = [op |-> op, prev |-> userOp.op, before |-> currentUser.v, picked |-> picked]

SelectFromGrid(book, chapter) ==
    /\ <<book, chapter>> \in ChapterGrid(book)
    /\ Navigate("select", SelectionUpdate(book, chapter), <<book, chapter>>)
    /\ NavFrame

NextChapter ==
    /\ Navigate("next", handleNextChapter(currentUser.v), << >>)
    /\ NavFrame

PreviousChapter ==
    /\ Navigate("previous", handlePreviousChapter(currentUser.v), << >>)
    /\ NavFrame

RandomChapter(random) ==
    /\ Navigate("random", handleRandomChapter(currentUser.v, random),
                << RandomPick(currentUser.v, random).book,
                   RandomPick(currentUser.v, random).chapter >>)
    /\ NavFrame

\* The lists of completed chapters the session may start with
CompletedLists ==
    { << >>, << ChapterKey("Ruth", 1) >>,
      << ChapterKey("1 John", 2), ChapterKey("Ruth", 1) >>,
      [ i \in 1..Len(allChapters) |-> allChapters[i].key ] }

NavRows ==
    { [ FreshRow EXCEPT !["study_mode"] = Str(m), !["read_through_index"] = Num(x),
                        !["user_selected_chapter"] = c, !["completed_chapters"] = Arr(done) ] :
        m \in {READ_THROUGH, "Book Study"}, x \in 0..(Len(READING_PLAN) - 1),
        c \in {Null} \cup { ChapterRef(allChapters[i].book, allChapters[i].chapter) :
                              i \in 1..Len(allChapters) },
        done \in CompletedLists }

InitNav ==
    /\ row \in NavRows
    /\ currentUser = Obj(fromSupabase(row))
    /\ userOp = [op |-> "none", prev |-> "none", before |-> currentUser.v, picked |-> << >>]
    /\ decoded = NoValue
    /\ lastData = NoValue
    /\ lastPatch = NoValue
    /\ rowBefore = NoValue
    /\ localStorage = <<>>
    /\ parseLog = <<>>
    /\ corruptCalls = 0
    /\ keyIn = NoValue
    /\ keyOut = NoValue
    /\ view = NoValue
    /\ cacheResetBanner = FALSE
    /\ tasks = <<>>
    /\ profileCall = NoValue
    /\ auth = NoValue
    /\ cacheOp = NoValue
    /\ chat = NoValue

NextNav ==
    \/ \E i \in 1..Len(BIBLE_BOOKS), chapter \in 0..3 :
         SelectFromGrid(BIBLE_BOOKS[i].name, chapter)
    \/ NextChapter
    \/ PreviousChapter
    \/ \E random \in 0..(Len(allChapters) - 1) : RandomChapter(random)

SpecNav == InitNav /\ [][NextNav]_vars

----------------------------------------------------------------------------
(* Claims about chapter navigation (SpecNav) *)

\* The chapter reference names a book of the table and a chapter of that book
ValidChapter(c) ==
    /\ c.t = "object"
    /\ FindBookIndex(c.v.book.v) # 0
    /\ c.v.chapter.v \in 1..BIBLE_BOOKS[FindBookIndex(c.v.book.v)].chapters

\* C24: from a valid selected chapter, handleSelectChapter from the chapter
\* grid, handleNextChapter, handlePreviousChapter and handleRandomChapter each
\* leave userSelectedChapter valid.
C24_NavigationKeepsTheSelectionValid ==
    (userOp.op # "none" /\ ValidChapter(userOp.before.userSelectedChapter))
        => ValidChapter(currentUser.v.userSelectedChapter)

\* Next has moved the selection from the last chapter of Ruth to 1 John 1
C24_Witness ==
    /\ userOp.op = "next"
    /\ userOp.before.userSelectedChapter = ChapterRef("Ruth", 2)
    /\ currentUser.v.userSelectedChapter = ChapterRef("1 John", 1)

LastIndex == Len(READING_PLAN) - 1

\* C28: in read-through mode, with readThroughIndex within the plan,
\* handleNextChapter and handlePreviousChapter keep it within
\* [0, plan length - 1]: next at the last index and previous at index 0 leave
\* it unchanged, every other next adds 1 and every other previous subtracts 1.
C28_ReadThroughIndexStaysInThePlan ==
    LET old == userOp.before.readThroughIndex.v
        new == currentUser.v.readThroughIndex.v
    IN  (userOp.op \in {"next", "previous"} /\ userOp.before.studyMode = Str(READ_THROUGH)
           /\ old \in 0..LastIndex)
            => /\ new \in 0..LastIndex
               /\ userOp.op = "next" => new = (IF old = LastIndex THEN old ELSE old + 1)
               /\ userOp.op = "previous" => new = (IF old = 0 THEN old ELSE old - 1)

\* Next was pressed at the last index of the plan and the index stayed
C28_Witness ==
    /\ userOp.op = "next" /\ userOp.before.studyMode = Str(READ_THROUGH)
    /\ userOp.before.readThroughIndex = Num(LastIndex)
    /\ currentUser.v.readThroughIndex = Num(LastIndex)

\* The positions of the chapters in the order of the table
PositionOf(c) ==
    CHOOSE i \in 1..Len(allChapters) :
        allChapters[i].book = c.v.book.v /\ allChapters[i].chapter = c.v.chapter.v

ChapterAt(i) == ChapterRef(allChapters[i].book, allChapters[i].chapter)

OutsideReadThrough(u) ==
    u.studyMode # Str(READ_THROUGH) /\ ValidChapter(u.userSelectedChapter)

\* C29: outside read-through mode next moves the selection to the following
\* chapter in the order of the table (chapter 1 of the following book after the
\* last chapter of a book) and leaves it at the very last chapter; previous
\* moves it to the preceding one (the last chapter of the preceding book
\* before chapter 1) and leaves it at the very first; so previous after next
\* returns to every chapter other than the very last.
C29_PreviousUndoesNext ==
    [][ /\ (userOp'.op = "next" /\ OutsideReadThrough(currentUser.v))
            => currentUser'.v.userSelectedChapter =
                 ChapterAt(IF PositionOf(currentUser.v.userSelectedChapter) = Len(allChapters)
                           THEN Len(allChapters)
                           ELSE PositionOf(currentUser.v.userSelectedChapter) + 1)
        /\ (userOp'.op = "previous" /\ OutsideReadThrough(currentUser.v))
            => currentUser'.v.userSelectedChapter =
                 ChapterAt(IF PositionOf(currentUser.v.userSelectedChapter) = 1
                           THEN 1
                           ELSE PositionOf(currentUser.v.userSelectedChapter) - 1)
        /\ (userOp.op = "next" /\ userOp'.op = "previous" /\ OutsideReadThrough(userOp.before)
              /\ PositionOf(userOp.before.userSelectedChapter) # Len(allChapters))
            => currentUser'.v.userSelectedChapter = userOp.before.userSelectedChapter ]_vars

\* Previous after next has returned from 1 John 1 to the last chapter of Ruth
C29_Witness ==
    /\ userOp.op = "previous" /\ userOp.prev = "next"
    /\ userOp.before.studyMode # Str(READ_THROUGH)
    /\ userOp.before.userSelectedChapter = ChapterRef("1 John", 1)
    /\ currentUser.v.userSelectedChapter = ChapterRef("Ruth", 2)

SomeUnread(u) == Len(Unread(allChapters, safeCompletedChapters(u))) > 0

\* C30: handleRandomChapter selects a chapter whose key is not in
\* completedChapters, and leaves completedChapters alone, whenever a chapter
\* of the table is unread; only when all are completed does it reset
\* completedChapters to empty; and the chapter it selects is the book and
\* chapter the picked key was built from.
C30_RandomPicksAnUnreadChapter ==
    userOp.op = "random" =>
        LET selected == currentUser.v.userSelectedChapter
        IN  /\ selected = ChapterRef(userOp.picked[1], userOp.picked[2])
            /\ IF SomeUnread(userOp.before)
               THEN /\ ~Includes(safeCompletedChapters(userOp.before),
                                 ChapterKey(selected.v.book.v, selected.v.chapter.v))
                    /\ currentUser.v.completedChapters = userOp.before.completedChapters
               ELSE currentUser.v.completedChapters = EmptyArr

\* With two chapters completed the random pick took the unread 1 John 1
C30_Witness ==
    /\ userOp.op = "random"
    /\ Len(safeCompletedChapters(userOp.before)) = 2
    /\ currentUser.v.userSelectedChapter = ChapterRef("1 John", 1)
    /\ ~Includes(safeCompletedChapters(userOp.before), ChapterKey("1 John", 1))

----------------------------------------------------------------------------
(* Specification SpecUpdates: the Random Chapter button of the sidebar, which
   calls setStudyMode(StudyMode.RANDOM) and onRandomChapter() one after the
   other without awaiting.  userOp holds the two handlers: the updates each
   has still to pass to handleUpdateUserData, where the current call stands,
   and the row the backend has read for its profile query.  The backend
   applies every update and answers every query with the row; requests and
   answers of different calls travel independently. *)

RandomButton(u, random) ==
    << [ updates |-> << [studyMode |-> Str("Random Chapter")] >>, pc |-> "update",
         snapshot |-> NoValue ],
       [ updates |-> handleRandomChapter(u, random), pc |-> "update",
         snapshot |-> NoValue ] >>

UpdatesFrame ==
    UNCHANGED <<passiveVars, localStorage, parseLog, corruptCalls, keyVars, view,
                cacheResetBanner, tasks, profileCall, auth, cacheOp, chat>>

\* handleUpdateUserData: the backend has applied the update of updateUserData
\* and the call goes on to getUserData
UpdateApplied(i) ==
    /\ userOp[i].pc = "update"
    /\ row' = ApplyUpdate(row, currentUser.v.id.v, UpdateBody(Head(userOp[i].updates)))
    /\ userOp' = [userOp EXCEPT ![i].pc = "query"]
    /\ UNCHANGED currentUser
    /\ UpdatesFrame

\* The backend has read the row for the profile query of getUserData
QueryProcessed(i) ==
    /\ userOp[i].pc = "query"
    /\ userOp' = [userOp EXCEPT ![i].pc = "reply", ![i].snapshot = row]
    /\ UNCHANGED <<row, currentUser>>
    /\ UpdatesFrame

\* The answer has arrived: setCurrentUser(updatedUser), and the handler goes
\* on to its next update if it has one
ReplyArrives(i) ==
    /\ userOp[i].pc = "reply"
    /\ currentUser' = Obj(fromSupabase(userOp[i].snapshot))
    /\ userOp' = [userOp EXCEPT ![i].updates = Tail(@),
                                ![i].pc = IF Tail(userOp[i].updates) = << >>
                                          THEN "done" ELSE "update"]
    /\ UNCHANGED row
    /\ UpdatesFrame

InitUpdates ==
    /\ row \in NavRows
    /\ currentUser = Obj(fromSupabase(row))
    /\ userOp \in { RandomButton(currentUser.v, random) :
                      random \in 0..(Len(allChapters) - 1) }
    /\ decoded = NoValue
    /\ lastData = NoValue
    /\ lastPatch = NoValue
    /\ rowBefore = NoValue
    /\ localStorage = <<>>
    /\ parseLog = <<>>
    /\ corruptCalls = 0
    /\ keyIn = NoValue
    /\ keyOut = NoValue
    /\ view = NoValue
    /\ cacheResetBanner = FALSE
    /\ tasks = <<>>
    /\ profileCall = NoValue
    /\ auth = NoValue
    /\ cacheOp = NoValue
    /\ chat = NoValue

NextUpdates ==
    \/ \E i \in 1..2 : UpdateApplied(i)
    \/ \E i \in 1..2 : QueryProcessed(i)
    \/ \E i \in 1..2 : ReplyArrives(i)

SpecUpdates == InitUpdates /\ [][NextUpdates]_vars

\* C26: once the concurrently issued profile updates have all completed, the
\* local user data equals the decoded profile row: no completed update is
\* missing from it, whatever the order of the answers.
C26_LocalStateEqualsTheRowAfterUpdates ==
    (\A i \in 1..2 : userOp[i].pc = "done") => currentUser = Obj(fromSupabase(row))

====
